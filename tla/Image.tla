------------------------------- MODULE Image -------------------------------
(***************************************************************************)
(* The kernel and its modules in one file, as ModulePacker writes it, and  *)
(* in memory, as moduleLoader.c finds it.  A word stands for the four      *)
(* bytes of a number, so that files are counted in words.                  *)
(***************************************************************************)
EXTENDS Integers, Sequences, SequencesExt

CONSTANTS
  BufferSize,   \* BUFFER_SIZE of the packer
  Targets       \* moduleAddresses of the kernel

\* write_file(): one buffer after the other until the file ends
WriteFile(target, source) ==
  LET rest[at \in Nat] ==
        IF at > Len(source) THEN <<>>
        ELSE LET end == IF at + BufferSize - 1 > Len(source) THEN Len(source)
                                                             ELSE at + BufferSize - 1
             IN SubSeq(source, at, end) \o rest[at + BufferSize]
  IN target \o rest[1]

\* The kernel counted as one of them
AllFiles(files) == Len(files)

\* extraBinaries
ExtraBinaries(files) == Len(files) - 1

\* write_size(), then write_file()
WriteModule(target, file) == WriteFile(Append(target, Len(file)), file)

\* buildImage()
BuildImage(files) ==
  FoldLeft(WriteModule,
           Append(WriteFile(<<>>, files[1]), ExtraBinaries(files)),
           Tail(files))

-----------------------------------------------------------------------------
\* memcpy() from one address to another, upwards
Memcpy(mem, to, from, n) ==
  FoldLeft(LAMBDA acc, i : [acc EXCEPT ![to+i-1] = acc[from+i-1]], mem, [i \in 1..n |-> i])

\* readUint32(), then loadModule() for the i-th address
LoadModule(s, i) ==
  LET size == s.mem[s.at] IN
  [mem |-> Memcpy(s.mem, Targets[i], s.at + 1, size),
   at  |-> s.at + 1 + size,
   end |-> Targets[i] + size]

\* loadModules(), from what stands behind the kernel
LoadModules(mem, start) ==
  FoldLeft(LoadModule, [mem |-> mem, at |-> start + 1, end |-> start],
           [i \in 1..mem[start] |-> i])
=============================================================================
