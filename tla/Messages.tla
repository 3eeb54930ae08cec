------------------------------ MODULE Messages ------------------------------
(* What the client writes: the bodies of its requests (smb/msg.rs,            *)
(* smb/trans2), and the NTLM packets some of them carry (ntlm/packet.rs).  A  *)
(* body is two runs of fields, parameter words and data bytes; of a field     *)
(* only its name, its length and, where it is a length or a position of       *)
(* another one, its value are kept.  Text is counted in UTF-16 code units and *)
(* is taken to be ASCII, so that one unit is one byte elsewhere.              *)
EXTENDS Integers, Sequences

HeaderLen == 32

F(name, len) == [is |-> name, len |-> len, val |-> 0]
V(name, len, val) == [is |-> name, len |-> len, val |-> val]

\* The bytes of the first n of some fields.
Upto(fields, n) == LET sum[i \in 0 .. n] == IF i = 0 THEN 0 ELSE sum[i - 1] + fields[i].len
                   IN  sum[n]
Size(fields) == Upto(fields, Len(fields))
Begins(fields, i) == Upto(fields, i - 1)

Utf16(units) == 2 * units
Utf16Nul(units) == 2 * units + 2

\* A one-byte field that is there only if wanted.
Pad(wanted) == IF wanted THEN <<F("pad", 1)>> ELSE <<>>
Even(n) == n % 2 = 0

\* The smallest multiple of four that is not below n, and what is missing to it.
RoundUp4(n) == 4 * ((n + 3) \div 4)
FillUp4(n) == (4 - (n % 4)) % 4

AndX == <<F("andx", 4)>>
-----------------------------------------------------------------------------
(* NTLM packets: fixed fields and descriptors of eight bytes (length,         *)
(* capacity and position of a buffer) first, then the buffers in the order of *)
(* their descriptors.  Of the fixed fields only their bytes are counted.      *)

Descriptor == 8

\* What to_bytes makes of the entries: positions count from the packet's start.
Packet(fixed, buffers) ==
    LET base == fixed + Descriptor * Len(buffers) IN
    [buffers |-> {[is |-> buffers[i].is, len |-> buffers[i].len,
                   pos |-> base + Begins(buffers, i)] : i \in DOMAIN buffers},
     bytes |-> <<F("base", base)>> \o buffers]

\* A descriptor has sixteen bits for a length.
PacketFits(packet) == \A b \in packet.buffers : b.len < 2^16

\* The first message: magic, type, flags, domain, workstation, version.
InitPacket(auth) == Packet(8 + 4 + 4 + 8, <<F("domain", auth.domain),
                                            F("workstation", auth.workstation)>>)

\* The answer to a challenge: a digest (16 bytes), then time stamp, nonce and
\* the information block that came with the challenge.
Proof(info) == 16 + 8 + 8 + 8 + 4 + info + 4

Text(units, unicode) == IF unicode THEN Utf16(units) ELSE units

ResponsePacket(auth, challenge) ==
    Packet(8 + 4, <<F("lm", 24), F("proof", Proof(challenge.info)),
                    F("domain", Text(auth.domain, challenge.unicode)),
                    F("user", Text(auth.user, challenge.unicode)),
                    F("workstation", Text(auth.workstation, challenge.unicode))>>)
-----------------------------------------------------------------------------
(* Bodies.  unicode is the flag of the header the body is written for.        *)

Body(cmd, words, data) == [cmd |-> cmd, words |-> words, data |-> data]

Negotiate == Body("Negotiate", <<>>, <<F("format", 1), F("dialect", 10), F("nul", 1)>>)

Names(unicode) == IF unicode THEN <<F("os", 2), F("lanman", 2)>>
                  ELSE <<F("os", 1), F("lanman", 1)>>

Limits == <<F("max_buffer", 2), F("max_mpx", 2), F("vc", 2), F("session_key", 4)>>

Secret == 24

\* Fault: the text is not aligned.
SetupUnaligned(auth, unicode) ==
    Body("SessionSetup",
         AndX \o Limits \o <<V("oem_secret", 2, Secret), V("unicode_secret", 2, Secret),
                             F("reserved", 4), F("capabilities", 4)>>,
         <<F("secret", Secret), F("secret", Secret), F("user", Utf16Nul(auth.user)),
           F("domain", Utf16Nul(auth.domain))>> \o Names(unicode))

SetupWithAuth(auth, unicode) ==
    Body("SessionSetup",
         AndX \o Limits \o <<V("oem_secret", 2, Secret), V("unicode_secret", 2, Secret),
                             F("reserved", 4), F("capabilities", 4)>>,
         <<F("secret", Secret), F("secret", Secret)>> \o Pad(Even(2 * Secret))
             \o <<F("user", Utf16Nul(auth.user)), F("domain", Utf16Nul(auth.domain))>>
             \o Names(unicode))

SetupWithBlob(blob, unicode) ==
    LET len == Size(blob.bytes) IN
    Body("SessionSetup",
         AndX \o Limits \o <<V("blob", 2, len), F("reserved", 4), F("capabilities", 4)>>,
         <<F("blob", len)>> \o Pad(Even(len)) \o Names(unicode))

TreeConnect(path, password, unicode) ==
    LET len == IF password = 0 THEN 1 ELSE password IN
    Body("TreeConnect",
         AndX \o <<F("flags", 2), V("password", 2, len)>>,
         <<F("password", len)>>
             \o (IF unicode THEN Pad(Even(len)) \o <<F("path", Utf16Nul(path))>>
                 ELSE <<F("path", path + 1)>>)
             \o <<F("service", 5), F("nul", 1)>>)

TreeDisconnect == Body("TreeDisconnect", <<>>, <<>>)

Open(name) ==
    Body("Create",
         AndX \o <<F("reserved", 1), V("name", 2, Utf16Nul(name)), F("flags", 4),
                   F("directory", 4), F("access", 4), F("allocation", 8), F("attributes", 4),
                   F("share", 4), F("disposition", 4), F("options", 4),
                   F("impersonation", 4), F("security", 1)>>,
         <<F("pad", 1), F("name", Utf16Nul(name))>>)

Close == Body("Close", <<F("fid", 2), F("last_write", 4)>>, <<>>)

\* A count and an offset are written in two halves each.
Read(offset, count, half) ==
    Body("Read",
         AndX \o <<F("fid", 2), V("offset_low", 4, offset % (half * half)),
                   V("count_low", 2, count % half), F("min", 2),
                   V("count_high", 2, (count \div half) % half), F("reserved", 2),
                   F("remaining", 2), V("offset_high", 4, offset \div (half * half))>>,
         <<>>)
-----------------------------------------------------------------------------
(* A Transact2 carries the parameters and the data of a subcommand among its  *)
(* data bytes, at positions that count from the header.  Its fifteen words    *)
(* are thirty bytes.                                                          *)

DataStart == HeaderLen + 1 + 30 + 2

ParameterOffset == RoundUp4(DataStart + 1)
DataOffset(parameter) == RoundUp4(ParameterOffset + parameter)

Find(name) == F("find", 12 + Utf16Nul(name))

Fill(sizeSoFar) == F("fill", FillUp4(DataStart + sizeSoFar))

Transact2Data(parameter, data) ==
    LET name == <<F("name", 1)>>
        filled == name \o <<Fill(Size(name))>> \o <<F("parameter", parameter)>>
    IN  filled \o <<Fill(Size(filled))>> \o <<F("data", data)>>

Transact2(parameter, data) ==
    Body("Transact2",
         <<F("total_parameter", 2), F("total_data", 2), F("max_parameter", 2),
           F("max_data", 2), F("max_setup", 1), F("reserved", 1), F("flags", 2),
           F("timeout", 4), F("reserved", 2),
           V("parameter_count", 2, parameter), V("parameter_offset", 2, ParameterOffset),
           V("data_count", 2, data), V("data_offset", 2, DataOffset(parameter)),
           F("setup_count", 1), F("reserved", 1), F("setup", 2)>>,
         Transact2Data(parameter, data))

\* FindFirst2 and FindNext2: twelve bytes and a name, and no data.
FindRequest(name) == Transact2(Find(name).len, 0)
-----------------------------------------------------------------------------
(* Writing: the count of words is a byte, that of bytes has sixteen bits.     *)

Fits(body) == Size(body.words) \div 2 < 2^8 /\ Size(body.data) < 2^16

Written(body) == [cmd |-> body.cmd, words |-> body.words, data |-> body.data,
                  wordCount |-> Size(body.words) \div 2, byteCount |-> Size(body.data)]
=============================================================================
