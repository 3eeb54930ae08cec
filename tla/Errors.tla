------------------------------- MODULE Errors -------------------------------
(* The errors of the crate (error.rs, smb/error.rs, ntlm/error.rs) and what   *)
(* they tell a caller: their kind, and whether to try again.  An error is the *)
(* layer it comes from and what it is there; of an I/O error of the socket    *)
(* the layer is "io", whichever layer met it.                                 *)

\* "Other" stands for the kinds no table names: a host not found, out of reach...
IoKinds == {"TimedOut", "WouldBlock", "BrokenPipe", "ConnectionAborted",
            "ConnectionReset", "NotConnected", "UnexpectedEof", "ConnectionRefused",
            "Other"}
NetBiosErrors == {"UnexpectedEOF", "CreateSession", "InvalidFrameType", "InvalidFrame",
                  "FrameTooBig", "UnexpectedFrame"}
SmbErrors == {"InvalidHeader", "InvalidData", "InvalidCommand", "NoDialect",
              "NeedSecurityExt", "ReplyExpected", "CreatePacket", "Reassemble",
              "Unsupported"}
NtlmErrors == {"InputParameter", "InvalidPacket", "NeedAuth"}
OwnErrors == {"InternalError", "UnexpectedReply", "TooManyReplies", "ServerError",
              "Unsupported", "InvalidConfig", "Timeout", "InvalidUri"}

Error(layer, what) == [layer |-> layer, what |-> what]

Errors == {Error("io", e) : e \in IoKinds} \cup {Error("netbios", e) : e \in NetBiosErrors}
              \cup {Error("smb", e) : e \in SmbErrors} \cup {Error("ntlm", e) : e \in NtlmErrors}
              \cup {Error("own", e) : e \in OwnErrors}

IoKind(e) == IF e \in {"TimedOut", "WouldBlock"} THEN "Timeout" ELSE "Network"
NetBiosKind(e) == IF e = "UnexpectedEOF" THEN "Network" ELSE "Protocol"
SmbKind(e) == IF e = "Unsupported" THEN "Unsupported" ELSE "Protocol"
NtlmKind == [NeedAuth |-> "Auth", InputParameter |-> "InvalidInput",
             InvalidPacket |-> "Protocol"]
OwnKind == [InternalError |-> "Internal", UnexpectedReply |-> "Protocol",
            TooManyReplies |-> "Protocol", ServerError |-> "Server",
            Unsupported |-> "Unsupported", InvalidConfig |-> "Config",
            Timeout |-> "Timeout", InvalidUri |-> "InvalidInput"]

Kind(error) == CASE error.layer = "io" -> IoKind(error.what)
                 [] error.layer = "netbios" -> NetBiosKind(error.what)
                 [] error.layer = "smb" -> SmbKind(error.what)
                 [] error.layer = "ntlm" -> NtlmKind[error.what]
                 [] error.layer = "own" -> OwnKind[error.what]

IsRetryable(error) == Kind(error) \in {"Network", "Timeout"}
IsTimeout(error) == Kind(error) = "Timeout"

\* Fault: a pipe that broke is no loss.
IsConnectionClosed(error) ==
    \/ error = Error("netbios", "UnexpectedEOF")
    \/ /\ error.layer = "io"
       /\ error.what \in {"ConnectionAborted", "ConnectionReset", "NotConnected",
                          "UnexpectedEof"}

IsConnectionLost(error) ==
    \/ error = Error("netbios", "UnexpectedEOF")
    \/ /\ error.layer = "io"
       /\ error.what \in {"BrokenPipe", "ConnectionAborted", "ConnectionReset",
                          "NotConnected", "UnexpectedEof"}
=============================================================================
