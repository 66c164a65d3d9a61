------------------------------ MODULE MCDirent ------------------------------
(* Constants for model checking Dirent. *)
EXTENDS Dirent

Long(text, bytes, start, fit) ==
  [text |-> text, chars |-> 3, bytes |-> bytes, mbs |-> [text |-> start, bytes |-> fit]]

Name(text, bytes) == Long(text, bytes, text, bytes)

File(name, alternate, attr) ==
  [cFileName |-> name, cAlternateFileName |-> alternate, attr |-> attr]

Plain == File(Name(4, 3), NULL, {})
Subdirectory == File(Name(1, 2), Name(2, 2), {"DIRECTORY"})
\* Without a byte left for the terminator, with a short name.
TooLong == File(Name(5, 4), Name(3, 3), {})
\* Two bytes a character: two of them fill the buffer.
TwoByte == File(Long(9, 6, 10, 4), Name(2, 2), {})
\* Three bytes a character: the second one would cross the end.
ThreeByte == File(Long(11, 9, 12, 3), Name(3, 3), {})
\* Not in the code page, with and without a short name.
Foreign == File(Name(6, -1), NULL, {"DEVICE", "DIRECTORY"})
ForeignToo == File(Name(7, -1), Name(8, -1), {"DEVICE"})

SmallDirectories == {<<>>, <<Foreign>>, <<ThreeByte, TwoByte>>,
                     <<Subdirectory, Foreign, Plain>>,
                     <<TooLong, ForeignToo, Subdirectory>>}

=============================================================================
