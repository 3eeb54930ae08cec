------------------------------ MODULE MCNetBios ------------------------------
(* Bytes of eight values, frames of up to six bytes.                          *)
EXTENDS NetBiosProps

MCFrameType == [b \in Bytes |->
    CASE b = 0 -> "Message" [] b = 1 -> "SessionRequest" [] b = 2 -> "PositiveResponse"
      [] b = 3 -> "NegativeResponse" [] b = 4 -> "Retarget" [] b = 5 -> "Keepalive"
      [] OTHER -> "invalid"]

Frame(t, data) == [type |-> t, data |-> data]

\* Messages short and too long, a keepalive, good and bad answers to a session
\* request, and a frame of no type.
MCServerFrames == {Frame(0, <<5, 0>>), Frame(0, <<0, 0, 0, 0, 0, 0, 0>>), Frame(5, <<>>),
                   Frame(2, <<>>), Frame(2, <<1>>), Frame(7, <<0>>)}
MCMessages == {<<6>>, <<0, 1, 2>>, <<0, 0, 0, 0, 0, 0, 0>>}
MCSessionData == <<7, 1>>
=============================================================================
