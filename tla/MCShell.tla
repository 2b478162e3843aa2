------------------------------ MODULE MCShell ------------------------------
(* The keys k, j, l, w and d, !, and those of the font, on a screen of 3   *)
(* by 2 characters, or of one in the larger font.  There is a letter       *)
(* behind the first word of a line and the third: "k" is then taken for    *)
(* the command "kk", and "!" for no command.                               *)
EXTENDS Shell

MCKey == {"k", "j", "l", "w", "d", "c", " ", "\n", "\t", "\\b", "1", "code 1B", "code 35"}
MCCommands == {<<"k", "k">>, <<"x">>}
MCLines == {<<"k", "k">>, <<"k", "EOF">>, <<"k", " ", "!", " ", "!", " ", "k">>}
MCBehind == {<<<<"k">>, <<>>, <<"k">>>>}
MCOutput == {<<>>, <<"x", "\n", "\n", T!Backspace>>}
=============================================================================
