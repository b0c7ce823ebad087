------------------------------ MODULE HatCodec ------------------------------
(***************************************************************************)
(* The wire format of a HardwareAuthToken: hatToBytes of SamsungSession.cpp *)
(* towards the vendor HAL, parseHat of HidlCallbackBridge.cpp back.        *)
(*                                                                         *)
(* An n-byte integer is the function from 0..n-1 to its bytes, the least   *)
(* significant at 0.  Byte i of a vector is element i + 1 of a sequence.   *)
(***************************************************************************)
EXTENDS Integers, Sequences

CONSTANT None   \* parseHat returned false; no token

Byte == 0..255
Word(n) == [0..(n - 1) -> Byte]
Bytes == Seq(Byte)

Hat == [challenge: Word(8), userId: Word(8), authenticatorId: Word(8),
        authenticatorType: Word(4), timestamp: Word(8), mac: Bytes]

ASSUME HatAssumption == None \notin Hat /\ None \notin Bytes

Zero(n) == [i \in 0..(n - 1) |-> 0]

\* HardwareAuthenticatorType::NONE, and HardwareAuthToken{}.
NoType == Zero(4)
DefaultHat == [challenge |-> Zero(8), userId |-> Zero(8),
               authenticatorId |-> Zero(8), authenticatorType |-> NoType,
               timestamp |-> Zero(8), mac |-> <<>>]

-----------------------------------------------------------------------------
\* Byte i of the words that put64LE, put32BE and put64BE write at off.
PutLE(v, off, i) == v[i - off]
Put32BE(v, off, i) == v[off + 3 - i]
Put64BE(v, off, i) == v[off + 7 - i]

\* Mutant: the three identifiers too are in network byte order, which is what the
\* comment at HidlCallbackBridge.cpp:33-42 says.
HatToBytesNetworkOrder(hat) ==
  IF Len(hat.mac) # 32 THEN <<>>
  ELSE [j \in 1..69 |->
          LET i == j - 1
          IN CASE i = 0 -> 0
               [] i \in 1..8 -> Put64BE(hat.challenge, 1, i)
               [] i \in 9..16 -> Put64BE(hat.userId, 9, i)
               [] i \in 17..24 -> Put64BE(hat.authenticatorId, 17, i)
               [] i \in 25..28 -> Put32BE(hat.authenticatorType, 25, i)
               [] i \in 29..36 -> Put64BE(hat.timestamp, 29, i)
               [] OTHER -> hat.mac[i - 36]]

HatToBytes(hat) ==
  IF Len(hat.mac) # 32 THEN <<>>
  ELSE [j \in 1..69 |->
          LET i == j - 1
          IN CASE i = 0 -> 0
               [] i \in 1..8 -> PutLE(hat.challenge, 1, i)
               [] i \in 9..16 -> PutLE(hat.userId, 9, i)
               [] i \in 17..24 -> PutLE(hat.authenticatorId, 17, i)
               [] i \in 25..28 -> Put32BE(hat.authenticatorType, 25, i)
               [] i \in 29..36 -> Put64BE(hat.timestamp, 29, i)
               [] OTHER -> hat.mac[i - 36]]

-----------------------------------------------------------------------------
ReadLE64(p, off) == [k \in 0..7 |-> p[off + k + 1]]
ReadBE64(p, off) == [k \in 0..7 |-> p[off + 8 - k]]
ReadBE32(p, off) == [k \in 0..3 |-> p[off + 4 - k]]

\* Mutant: the timestamp is read as the identifiers are.
ParseHatTimeLE(in) ==
  IF Len(in) # 69 \/ in[1] # 0 THEN None
  ELSE [challenge |-> ReadLE64(in, 1), userId |-> ReadLE64(in, 9),
        authenticatorId |-> ReadLE64(in, 17),
        authenticatorType |-> ReadBE32(in, 25),
        timestamp |-> ReadLE64(in, 29), mac |-> [k \in 1..32 |-> in[37 + k]]]

ParseHat(in) ==
  IF Len(in) # 69 \/ in[1] # 0 THEN None
  ELSE [challenge |-> ReadLE64(in, 1), userId |-> ReadLE64(in, 9),
        authenticatorId |-> ReadLE64(in, 17),
        authenticatorType |-> ReadBE32(in, 25),
        timestamp |-> ReadBE64(in, 29), mac |-> [k \in 1..32 |-> in[37 + k]]]

-----------------------------------------------------------------------------
Pinned(hat) == [hat EXCEPT !.authenticatorType = NoType]

\* The token that goes with authenticationSucceeded; None: authenticationFailed.
OnAuthenticatedHat(token) ==
  Pinned(IF ParseHat(token) = None THEN DefaultHat ELSE ParseHat(token))

SehOnAuthenticatedHat(token) ==
  IF ParseHat(token) = None THEN None ELSE Pinned(ParseHat(token))
=============================================================================
