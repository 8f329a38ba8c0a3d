------------------------------ MODULE MCCodec -------------------------------
(* Messages that are short, empty, not registered and too long; one byte    *)
(* string of another origin for each way in which a header can be off.  The *)
(* payload of two messages looks like a header: one of a message, one whose *)
(* lengths do not agree.                                                    *)
EXTENDS Codec, TLC

CONSTANTS small, empty, unknown, long, negative, short, misnamed, broken

MCMessages == {small, empty, unknown, long}
MCNameLen == [k \in MCMessages |-> 1]
MCBodyLen == (small :> 3) @@ (empty :> 0) @@ (unknown :> 1) @@ (long :> 5)
MCStrays == {negative, short, misnamed, broken}
MCStrayLen == [k \in MCStrays |-> 7]
Header(len, name_len, valid) ==
    [len |-> len, name_len |-> name_len, known |-> TRUE, valid |-> valid]
MCLooks ==
    [k \in MCMessages \union MCStrays |->
        CASE k = small -> 4 :> Header(2, 0, TRUE)
          [] k = long -> 6 :> Header(1, 0, TRUE)
          [] k = negative -> 0 :> Header(-1, 1, TRUE)
          [] k = short -> 0 :> Header(0, 0, TRUE)
          [] k = misnamed -> 0 :> Header(3, 2, TRUE)
          [] k = broken -> 0 :> Header(3, 1, FALSE)
          [] OTHER -> <<>>]
MCBytes == [frame : 1..MaxFrames, at : 0..11]
MCJunk == [frame |-> 0, at |-> 12]
=============================================================================
