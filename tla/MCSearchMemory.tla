--------------------------- MODULE MCSearchMemory ---------------------------
(* Small instance of SearchMemory: two pages of four bytes, bytes 0 and 1, *)
(* two processes, a two-entry result buffer.                               *)
EXTENDS SearchMemory

CONSTANTS Other

(* A memory image written as the sequence of its bytes from address       *)
(* PageSize upwards.                                                       *)
Image(s) == [a \in Addr |-> s[a - PageSize + 1]]

MCProcs == {Caller, Other}

MCMemImages ==
    { Image(<<1, 1, 1, 1, 1, 1, 1, 1>>),
      Image(<<1, 0, 1, 1, 0, 1, 1, 1>>) }

MCPatternChunks ==
    { <<0>>, <<1>>,
      <<1, 1, 1, 1>>, <<1, 0, 1, 1>>,
      <<1, 1, 1, 1, 1, 1, 1, 1>> }
=============================================================================
