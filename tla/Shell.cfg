\* At most 1 character unread; 3 by 2 characters, or 1.
CONSTANTS
  Key <- MCKey
  ModifierKey = {"CTRL", "LEFT_SHIFT"}
  Layout = {"LATAM"}
  Text = {"k", " ", "!", "EOF"}
  Commands <- MCCommands
  Output <- MCOutput
  Size = 2
  ScreenWidth = 3
  ScreenHeight = 2
  CharWidth = 1
  CharHeight = 1
  CharSeparation = 0
  MaxFontSize = 2
  Behind <- MCBehind
  MaxUnread = 1
  Lines <- MCLines
SPECIFICATION Spec
INVARIANT
  ScreenShowsLine
PROPERTY
  ImplementsEditor
