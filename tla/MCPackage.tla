----------------------------- MODULE MCPackage -----------------------------
(* The instance of Package that TLC checks: objects with shared parts, a     *)
(* cycle and keys that share maps, words to relocate in three pages, bytes   *)
(* whose number is no multiple of four, in packages of up to three parts.    *)
EXTENDS Package, PkgFormat

Frame(keys, values) ==
  [NewFrame EXCEPT !.keys = [i \in DOMAIN keys |-> Sym(keys[i])], !.values = values]

\* A frame whose map another one shares, one that begins like it, a cycle.
MCFrames ==
  <<Frame(<<3, 4>>, <<Ptr(2), Ptr(3)>>),
    Frame(<<3, 4, 8>>, <<Ptr(1), Ptr(3), Ptr(4)>>),
    Frame(<<3, 4>>, <<Ptr(4), Sym(8)>>),
    [Frame(<<8, 4>>, <<Ptr(3), kNILREF>>) EXCEPT !.sorted = FALSE]>>

\* Bytes that two objects share and that are no multiple of four.
MCArray ==
  <<Frame(<<11>>, <<Ptr(2)>>),
    NewArray(Sym(3), <<Ptr(3), Ptr(1), Ptr(3), MakeChar(65)>>),
    NewBinary(Sym(11), <<1, 2, 3>>)>>

\* Two objects for one symbol.
MCTwins == <<Frame(<<1, 3>>, <<Ptr(2), Ptr(3)>>), NewSymbol(4), NewSymbol(4)>>

MCRaw == RawPart(<<5, 6>>, <<9, 9>>, 7)
MCCode == RelocatablePart(<<7>>, 64, <<66, 0, 0, 68, 70, 0, 0, 72>>, <<0, 12, 16, 28>>)
MCCodeUnsorted == RelocatablePart(<<>>, 0, <<1, 0, 2, 0, 0, 0, 0, 0, 3>>, <<0, 32, 8>>)
MCObject == NOSPart(<<8>>, MCFrames, 8)

MCNewParts == {MCRaw, MCCode, MCObject, NOSPart(<<>>, MCTwins, 4),
               NOSPart(<<3, 3>>, MCArray, 4),
               NOSPart(<<1>>, <<NewFunction>>, 4), NOSPart(<<2>>, <<NewFrame>>, 4)}
MCStarts == {<<MCRaw, MCObject>>, <<MCCode, MCRaw, MCCode>>, <<MCCodeUnsorted, MCRaw>>}
MCNames == {<<0, 65, 0, 0>>}
=============================================================================
