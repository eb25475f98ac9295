-------------------------- MODULE MCObjectExchange --------------------------
(* The instance of ObjectExchange that TLC checks: an array that holds a    *)
(* frame one slot short of a rectangle and a string twice, or a function.   *)
EXTENDS ObjectExchange, NSOF

MCFrame == [NewFrame EXCEPT !.keys = <<Sym(kSYM.right), Sym(kSYM.left), Sym(kSYM.bottom)>>,
                            !.values = <<MakeInt(64), MakeInt(0), MakeInt(255)>>]
MCShared == <<NewArray(Sym(kSYM.array), <<Ptr(2), Ptr(3), Ptr(3), MakeChar(65)>>),
              MCFrame, NewBinary(Sym(kSYM.string), <<0, 65>>)>>
MCStarts == {MCShared, <<NewFunction>>}
=============================================================================
