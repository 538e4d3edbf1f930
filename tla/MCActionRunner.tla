--------------------------- MODULE MCActionRunner ---------------------------
(***************************************************************************)
(* Small instances of ActionRunner: `d` may be a file or the directory     *)
(* `d/f` is in.  `wide` is text of two-byte characters: within the cap in  *)
(* characters, over it in bytes.                                           *)
(***************************************************************************)
EXTENDS ActionRunner, TLC

CONSTANTS d, f, k1, k2

MCParentOf == d :> Root @@ f :> d

Short == <<"short">>
Long == <<"long", "long">>
Wide == <<"wide", "wide", "wide">>
TooLong == <<"too long", "too long", "too long">>

MCContents == {Short, Long, TooLong}
MCWideContents == {Wide}
MCCharsOf == Short :> 1 @@ Long :> 2 @@ TooLong :> 3 @@ Wide :> 2

=============================================================================
