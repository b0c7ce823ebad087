--------------------------- MODULE DataPathsProofs ---------------------------
(***************************************************************************)
(* Theorems about DataPaths: for every token, byte vector and frame.       *)
(***************************************************************************)
EXTENDS DataPaths, TLAPS

(* Words and vectors are equal when their bytes are.                       *)

LEMMA WordsEqual ==
  ASSUME NEW I, NEW f, NEW g, f = [i \in I |-> f[i]], g = [i \in I |-> g[i]],
         \A i \in I : f[i] = g[i]
  PROVE  f = g
OBVIOUS

LEMMA VectorIsFunction ==
  ASSUME NEW s \in Seq(Byte), NEW n \in Nat, Len(s) = n
  PROVE  s = [k \in 1..n |-> s[k]]
OBVIOUS

LEMMA VectorBytes ==
  ASSUME NEW s \in Seq(Byte)
  PROVE  \A i \in 1..Len(s) : s[i] \in Byte
OBVIOUS

\* Every byte of the vector belongs to a field.
LEMMA ByteIndexes ==
  ASSUME NEW j \in 1..69
  PROVE  \/ j = 1
         \/ \E k \in 0..7 : j \in {1 + k + 1, 9 + k + 1, 17 + k + 1, 29 + 8 - k}
         \/ \E k \in 0..3 : j = 25 + 4 - k
         \/ \E k \in 1..32 : j = 37 + k
<1>1. CASE j = 1
  BY <1>1
<1>2. CASE j \in 2..9
  <2>1. j - 2 \in 0..7 /\ j = 1 + (j - 2) + 1
    BY <1>2
  <2> QED
    BY <2>1
<1>3. CASE j \in 10..17
  <2>1. j - 10 \in 0..7 /\ j = 9 + (j - 10) + 1
    BY <1>3
  <2> QED
    BY <2>1
<1>4. CASE j \in 18..25
  <2>1. j - 18 \in 0..7 /\ j = 17 + (j - 18) + 1
    BY <1>4
  <2> QED
    BY <2>1
<1>5. CASE j \in 26..29
  <2>1. 29 - j \in 0..3 /\ j = 25 + 4 - (29 - j)
    BY <1>5
  <2> QED
    BY <2>1
<1>6. CASE j \in 30..37
  <2>1. 37 - j \in 0..7 /\ j = 29 + 8 - (37 - j)
    BY <1>6
  <2> QED
    BY <2>1
<1>7. CASE j \in 38..69
  <2>1. j - 37 \in 1..32 /\ j = 37 + (j - 37)
    BY <1>7
  <2> QED
    BY <2>1
<1> QED
  BY <1>1, <1>2, <1>3, <1>4, <1>5, <1>6, <1>7

\* The bytes hatToBytes writes, field by field.
LEMMA HatLayout ==
  ASSUME NEW hat, Len(hat.mac) = 32
  PROVE  /\ Len(HatToBytes(hat)) = 69 /\ HatToBytes(hat)[1] = 0
         /\ \A k \in 0..7 : HatToBytes(hat)[1 + k + 1] = hat.challenge[k]
         /\ \A k \in 0..7 : HatToBytes(hat)[9 + k + 1] = hat.userId[k]
         /\ \A k \in 0..7 : HatToBytes(hat)[17 + k + 1] = hat.authenticatorId[k]
         /\ \A k \in 0..3 : HatToBytes(hat)[25 + 4 - k] = hat.authenticatorType[k]
         /\ \A k \in 0..7 : HatToBytes(hat)[29 + 8 - k] = hat.timestamp[k]
         /\ \A k \in 1..32 : HatToBytes(hat)[37 + k] = hat.mac[k]
<1> DEFINE At(i) == CASE i = 0 -> 0
                      [] i \in 1..8 -> hat.challenge[i - 1]
                      [] i \in 9..16 -> hat.userId[i - 9]
                      [] i \in 17..24 -> hat.authenticatorId[i - 17]
                      [] i \in 25..28 -> hat.authenticatorType[28 - i]
                      [] i \in 29..36 -> hat.timestamp[36 - i]
                      [] OTHER -> hat.mac[i - 36]
<1>1. HatToBytes(hat) = [j \in 1..69 |-> At(j - 1)]
  BY DEF HatToBytes, PutLE, Put32BE, Put64BE
<1>2. /\ At(0) = 0
      /\ \A k \in 0..7 : At(1 + k) = hat.challenge[k]
      /\ \A k \in 0..7 : At(9 + k) = hat.userId[k]
      /\ \A k \in 0..7 : At(17 + k) = hat.authenticatorId[k]
      /\ \A k \in 0..3 : At(25 + 3 - k) = hat.authenticatorType[k]
      /\ \A k \in 0..7 : At(29 + 7 - k) = hat.timestamp[k]
      /\ \A k \in 1..32 : At(36 + k) = hat.mac[k]
  OBVIOUS
<1> HIDE DEF At
<1>3. \A i \in 0..68 : HatToBytes(hat)[i + 1] = At(i)
  BY <1>1
<1> QED
  BY <1>1, <1>2, <1>3

\* What parseHat reads from the bytes hatToBytes wrote is the token.
LEMMA HatRoundTrip ==
  ASSUME NEW hat \in Hat, Len(hat.mac) = 32
  PROVE  ParseHat(HatToBytes(hat)) = hat
<1> DEFINE out == HatToBytes(hat)
<1>1. /\ hat.challenge \in [0..7 -> Byte] /\ hat.userId \in [0..7 -> Byte]
      /\ hat.authenticatorId \in [0..7 -> Byte] /\ hat.timestamp \in [0..7 -> Byte]
      /\ hat.authenticatorType \in [0..3 -> Byte] /\ hat.mac \in Seq(Byte)
  BY DEF Hat, Word, Bytes
<1>2. /\ Len(out) = 69 /\ out[1] = 0
      /\ \A k \in 0..7 : out[1 + k + 1] = hat.challenge[k]
      /\ \A k \in 0..7 : out[9 + k + 1] = hat.userId[k]
      /\ \A k \in 0..7 : out[17 + k + 1] = hat.authenticatorId[k]
      /\ \A k \in 0..3 : out[25 + 4 - k] = hat.authenticatorType[k]
      /\ \A k \in 0..7 : out[29 + 8 - k] = hat.timestamp[k]
      /\ \A k \in 1..32 : out[37 + k] = hat.mac[k]
  BY HatLayout
<1> HIDE DEF out
<1>3. ReadLE64(out, 1) = hat.challenge
  <2> DEFINE word == ReadLE64(out, 1)
  <2>1. /\ word = [k \in 0..7 |-> word[k]]
        /\ \A k \in 0..7 : word[k] = hat.challenge[k]
    BY <1>2 DEF ReadLE64
  <2>2. hat.challenge = [k \in 0..7 |-> hat.challenge[k]]
    BY <1>1
  <2> HIDE DEF word
  <2>3. word = hat.challenge
    BY <2>1, <2>2, WordsEqual
  <2> QED
    BY <2>3 DEF word
<1>4. ReadLE64(out, 9) = hat.userId
  <2> DEFINE word == ReadLE64(out, 9)
  <2>1. /\ word = [k \in 0..7 |-> word[k]]
        /\ \A k \in 0..7 : word[k] = hat.userId[k]
    BY <1>2 DEF ReadLE64
  <2>2. hat.userId = [k \in 0..7 |-> hat.userId[k]]
    BY <1>1
  <2> HIDE DEF word
  <2>3. word = hat.userId
    BY <2>1, <2>2, WordsEqual
  <2> QED
    BY <2>3 DEF word
<1>5. ReadLE64(out, 17) = hat.authenticatorId
  <2> DEFINE word == ReadLE64(out, 17)
  <2>1. /\ word = [k \in 0..7 |-> word[k]]
        /\ \A k \in 0..7 : word[k] = hat.authenticatorId[k]
    BY <1>2 DEF ReadLE64
  <2>2. hat.authenticatorId = [k \in 0..7 |-> hat.authenticatorId[k]]
    BY <1>1
  <2> HIDE DEF word
  <2>3. word = hat.authenticatorId
    BY <2>1, <2>2, WordsEqual
  <2> QED
    BY <2>3 DEF word
<1>6. ReadBE32(out, 25) = hat.authenticatorType
  <2> DEFINE word == ReadBE32(out, 25)
  <2>1. /\ word = [k \in 0..3 |-> word[k]]
        /\ \A k \in 0..3 : word[k] = hat.authenticatorType[k]
    BY <1>2 DEF ReadBE32
  <2>2. hat.authenticatorType = [k \in 0..3 |-> hat.authenticatorType[k]]
    BY <1>1
  <2> HIDE DEF word
  <2>3. word = hat.authenticatorType
    BY <2>1, <2>2, WordsEqual
  <2> QED
    BY <2>3 DEF word
<1>7. ReadBE64(out, 29) = hat.timestamp
  <2> DEFINE word == ReadBE64(out, 29)
  <2>1. /\ word = [k \in 0..7 |-> word[k]]
        /\ \A k \in 0..7 : word[k] = hat.timestamp[k]
    BY <1>2 DEF ReadBE64
  <2>2. hat.timestamp = [k \in 0..7 |-> hat.timestamp[k]]
    BY <1>1
  <2> HIDE DEF word
  <2>3. word = hat.timestamp
    BY <2>1, <2>2, WordsEqual
  <2> QED
    BY <2>3 DEF word
<1>8. [k \in 1..32 |-> out[37 + k]] = hat.mac
  <2>1. hat.mac = [k \in 1..32 |-> hat.mac[k]]
    <3>1. hat.mac \in Seq(Byte) /\ 32 \in Nat /\ Len(hat.mac) = 32
      BY <1>1
    <3> QED
      BY <3>1, VectorIsFunction, Zenon
  <2> QED
    BY <1>2, <2>1
<1>9. ParseHat(out) = [challenge |-> hat.challenge, userId |-> hat.userId,
                       authenticatorId |-> hat.authenticatorId,
                       authenticatorType |-> hat.authenticatorType,
                       timestamp |-> hat.timestamp, mac |-> hat.mac]
  BY <1>2, <1>3, <1>4, <1>5, <1>6, <1>7, <1>8 DEF ParseHat
<1> QED
  BY <1>9 DEF Hat, out

\* Pinning the type and putting the type back gives the token.
LEMMA TypePutBack ==
  ASSUME NEW a, NEW b, NEW c, NEW t, NEW d, NEW e, NEW p,
         p = [challenge |-> a, userId |-> b, authenticatorId |-> c,
              authenticatorType |-> t, timestamp |-> d, mac |-> e]
  PROVE  [Pinned(p) EXCEPT !.authenticatorType = t] = p
<1> DEFINE Typed(u) == [challenge |-> a, userId |-> b, authenticatorId |-> c,
                        authenticatorType |-> u, timestamp |-> d, mac |-> e]
<1>1. ASSUME NEW u, NEW v
      PROVE  [Typed(u) EXCEPT !.authenticatorType = v] = Typed(v)
  OBVIOUS
<1>2. Pinned(p) = Typed(NoType)
  BY <1>1 DEF Pinned
<1> HIDE DEF Typed
<1>3. [Typed(NoType) EXCEPT !.authenticatorType = t] = Typed(t)
  BY <1>1
<1> QED
  BY <1>2, <1>3 DEF Typed

\* A full token comes back byte for byte from what parseHat read of it, once the
\* type that was pinned is put back.
LEMMA BytesRoundTrip ==
  ASSUME NEW b \in Bytes, Len(b) = 69, b[1] = 0
  PROVE  HatToBytes([Pinned(ParseHat(b)) EXCEPT !.authenticatorType = ReadBE32(b, 25)])
           = b
<1> DEFINE hat == [Pinned(ParseHat(b)) EXCEPT !.authenticatorType = ReadBE32(b, 25)]
           out == HatToBytes(hat)
<1>1. hat = [challenge |-> ReadLE64(b, 1), userId |-> ReadLE64(b, 9),
             authenticatorId |-> ReadLE64(b, 17),
             authenticatorType |-> ReadBE32(b, 25),
             timestamp |-> ReadBE64(b, 29), mac |-> [k \in 1..32 |-> b[37 + k]]]
  <2>1. ParseHat(b) = [challenge |-> ReadLE64(b, 1), userId |-> ReadLE64(b, 9),
                       authenticatorId |-> ReadLE64(b, 17),
                       authenticatorType |-> ReadBE32(b, 25),
                       timestamp |-> ReadBE64(b, 29),
                       mac |-> [k \in 1..32 |-> b[37 + k]]]
    BY DEF ParseHat
  <2>2. hat = ParseHat(b)
    BY <2>1, TypePutBack
  <2> QED
    BY <2>1, <2>2
<1>2. Len(hat.mac) = 32
  BY <1>1
<1> HIDE DEF hat
<1>3. /\ Len(out) = 69 /\ out[1] = 0
      /\ \A k \in 0..7 : out[1 + k + 1] = hat.challenge[k]
      /\ \A k \in 0..7 : out[9 + k + 1] = hat.userId[k]
      /\ \A k \in 0..7 : out[17 + k + 1] = hat.authenticatorId[k]
      /\ \A k \in 0..3 : out[25 + 4 - k] = hat.authenticatorType[k]
      /\ \A k \in 0..7 : out[29 + 8 - k] = hat.timestamp[k]
      /\ \A k \in 1..32 : out[37 + k] = hat.mac[k]
  BY <1>2, HatLayout
<1>4. \E f : out = [j \in 1..69 |-> f[j]]
  <2>1. out = [j \in 1..69 |-> out[j]]
    BY <1>2 DEF HatToBytes
  <2> QED
    BY <2>1
<1> HIDE DEF out
<1>5. /\ \A k \in 0..7 : out[1 + k + 1] = b[1 + k + 1]
      /\ \A k \in 0..7 : out[9 + k + 1] = b[9 + k + 1]
      /\ \A k \in 0..7 : out[17 + k + 1] = b[17 + k + 1]
      /\ \A k \in 0..3 : out[25 + 4 - k] = b[25 + 4 - k]
      /\ \A k \in 0..7 : out[29 + 8 - k] = b[29 + 8 - k]
      /\ \A k \in 1..32 : out[37 + k] = b[37 + k]
  BY <1>1, <1>3 DEF ReadLE64, ReadBE32, ReadBE64
<1>6. \A j \in 1..69 : out[j] = b[j]
  BY <1>3, <1>5, ByteIndexes
<1>7. b = [j \in 1..69 |-> b[j]]
  BY DEF Bytes
<1> QED
  BY <1>4, <1>6, <1>7 DEF out, hat

LEMMA HatToBytesType == ASSUME NEW hat \in Hat PROVE HatToBytes(hat) \in Bytes
<1>1. CASE Len(hat.mac) # 32
  BY <1>1 DEF HatToBytes, Bytes
<1>2. CASE Len(hat.mac) = 32
  <2> DEFINE out == HatToBytes(hat)
  <2>1. /\ hat.challenge \in [0..7 -> Byte] /\ hat.userId \in [0..7 -> Byte]
        /\ hat.authenticatorId \in [0..7 -> Byte] /\ hat.timestamp \in [0..7 -> Byte]
        /\ hat.authenticatorType \in [0..3 -> Byte] /\ hat.mac \in Seq(Byte)
    BY DEF Hat, Word, Bytes
  <2>2. out = [j \in 1..69 |-> out[j]]
    BY <1>2 DEF HatToBytes
  <2>3. /\ Len(out) = 69 /\ out[1] = 0
        /\ \A k \in 0..7 : out[1 + k + 1] = hat.challenge[k]
        /\ \A k \in 0..7 : out[9 + k + 1] = hat.userId[k]
        /\ \A k \in 0..7 : out[17 + k + 1] = hat.authenticatorId[k]
        /\ \A k \in 0..3 : out[25 + 4 - k] = hat.authenticatorType[k]
        /\ \A k \in 0..7 : out[29 + 8 - k] = hat.timestamp[k]
        /\ \A k \in 1..32 : out[37 + k] = hat.mac[k]
    BY <1>2, HatLayout
  <2>4. ASSUME NEW j \in 1..69 PROVE out[j] \in Byte
    <3>1. 0 \in Byte /\ Len(hat.mac) = 32
      BY <1>2 DEF Byte
    <3>2. \A k \in 1..32 : hat.mac[k] \in Byte
      <4>1. \A k \in 1..Len(hat.mac) : hat.mac[k] \in Byte
        BY <2>1, VectorBytes, Zenon
      <4> QED
        BY <3>1, <4>1
    <3> HIDE DEF out
    <3>3. /\ \A k \in 0..7 : /\ hat.challenge[k] \in Byte /\ hat.userId[k] \in Byte
                             /\ hat.authenticatorId[k] \in Byte
                             /\ hat.timestamp[k] \in Byte
          /\ \A k \in 0..3 : hat.authenticatorType[k] \in Byte
      BY <2>1
    <3>4. /\ out[1] \in Byte
          /\ \A k \in 0..7 : /\ out[1 + k + 1] \in Byte /\ out[9 + k + 1] \in Byte
                             /\ out[17 + k + 1] \in Byte /\ out[29 + 8 - k] \in Byte
          /\ \A k \in 0..3 : out[25 + 4 - k] \in Byte
          /\ \A k \in 1..32 : out[37 + k] \in Byte
      BY <2>3, <3>1, <3>2, <3>3, Zenon
    <3> QED
      BY <3>4, ByteIndexes
  <2> HIDE DEF out
  <2>5. out \in Seq(Byte)
    BY <2>2, <2>4
  <2> QED
    BY <2>5 DEF out, Bytes
<1> QED
  BY <1>1, <1>2

-----------------------------------------------------------------------------
(* The invariants.  A step's result depends on the step before in two      *)
(* places only, which StepOK keeps: the vector the vendor HAL may report   *)
(* back, and the frame the view gets.                                      *)

StepOK ==
  /\ step.op \in {"enroll", "passToken"} /\ step.res # None => step.res \in Bytes
  /\ step.op = "sehOnPreviewFrame" /\ step.res # None =>
       /\ step.res.w \in Int /\ step.res.h \in Int
       /\ Renders(step.res.size, step.res.w, step.res.h)

IInv == /\ StepOK /\ HatArrivesWhole /\ ReportedHatIsVendors
        /\ AdmittedIsRendered /\ PreviewCoversView

\* What the bridge admits the view renders, with the size it had.
LEMMA AdmittedRenders ==
  ASSUME NEW f \in Frame, Admitted(f)
  PROVE  Int32Size(f) = f.lo /\ Renders(Int32Size(f), f.w, f.h)
<1>1. f.w \in Int /\ f.h \in Int /\ f.hi = 0 /\ f.lo \in Nat
  <2>1. f.w \in Int /\ f.h \in Int /\ f.lo \in Nat
    <3>1. Int32Max \in Nat
      BY DEF Int32Max
    <3> QED
      BY <3>1 DEF Frame
  <2> QED
    BY <2>1 DEF Admitted
<1>2. Int32Size(f) = f.lo
  BY <1>1 DEF Int32Size
<1>3. f.w * f.h >= 1
  <2>1. f.w >= 1 /\ f.h >= 1
    BY <1>1 DEF Admitted
  <2> QED
    BY <1>1, <2>1
<1>4. Nv21Min(f.w, f.h) >= 1
  BY <1>1, <1>3 DEF Nv21Min
<1>5. Nv21Min(f.w, f.h) \in Int
  BY <1>1 DEF Nv21Min
<1> QED
  BY <1>1, <1>2, <1>4, <1>5 DEF Admitted, Renders

LEMMA TokenSent ==
  ASSUME NEW hat \in Hats, Enroll(hat) \/ PassToken(hat)
  PROVE  IInv'
<1>1. hat \in Hat /\ Len(hat.mac) \in Nat
  BY DataAssumption DEF Hat, Bytes
<1>2. HatToBytes(hat) \in Bytes /\ HatToBytes(hat) # None
  BY <1>1, HatToBytesType, HatAssumption
<1>3. Len(hat.mac) # 32 => HatToBytes(hat) = <<>>
  BY DEF HatToBytes
<1>4. Len(hat.mac) = 32 => ParseHat(HatToBytes(hat)) = hat /\ HatToBytes(hat) # <<>>
  <2> SUFFICES ASSUME Len(hat.mac) = 32
               PROVE  ParseHat(HatToBytes(hat)) = hat /\ HatToBytes(hat) # <<>>
    OBVIOUS
  <2>1. ParseHat(HatToBytes(hat)) = hat
    BY <1>1, HatRoundTrip
  <2>2. Len(HatToBytes(hat)) = 69
    BY HatLayout
  <2>3. Len(<<>>) # 69
    OBVIOUS
  <2> QED
    BY <2>1, <2>2, <2>3, Zenon
<1>5. CASE Enroll(hat)
  <2>1. /\ step'.op = "enroll" /\ step'.arg = hat
        /\ step'.res = IF HatToBytes(hat) = <<>> THEN None ELSE HatToBytes(hat)
    BY <1>5 DEF Enroll, Did
  <2> QED
    BY <1>2, <1>3, <1>4, <2>1
    DEF IInv, StepOK, HatArrivesWhole, ReportedHatIsVendors, AdmittedIsRendered,
      PreviewCoversView
<1>6. CASE PassToken(hat)
  <2>1. step'.op = "passToken" /\ step'.arg = hat /\ step'.res = HatToBytes(hat)
    BY <1>6 DEF PassToken, Did
  <2> QED
    BY <1>2, <1>3, <1>4, <2>1
    DEF IInv, StepOK, HatArrivesWhole, ReportedHatIsVendors, AdmittedIsRendered,
      PreviewCoversView
<1> QED
  BY <1>5, <1>6

LEMMA TokenReported ==
  ASSUME IInv, OnAuthenticated \/ SehOnAuthenticated
  PROVE  IInv'
<1>1. PICK token \in Reported :
         \/ Did("onAuthenticated", token, OnAuthenticatedHat(token))
         \/ Did("sehOnAuthenticated", token, SehOnAuthenticatedHat(token))
  BY DEF OnAuthenticated, SehOnAuthenticated
<1>2. token \in Bytes
  BY DataAssumption DEF Reported, IInv, StepOK
<1> DEFINE full == Len(token) = 69 /\ token[1] = 0
<1>3. ~full => ParseHat(token) = None
  BY DEF ParseHat
<1>4. full => ParseHat(token) # None
  <2> SUFFICES ASSUME full PROVE ParseHat(token) # None
    OBVIOUS
  <2>1. \A j \in 1..69 : token[j] \in Byte
    <3>1. token \in Seq(Byte) /\ Len(token) = 69
      BY <1>2 DEF Bytes
    <3>2. \A j \in 1..Len(token) : token[j] \in Byte
      BY <3>1, VectorBytes, Zenon
    <3> QED
      BY <3>1, <3>2
  <2>2. /\ \A off \in {1, 9, 17} : ReadLE64(token, off) \in Word(8)
        /\ ReadBE32(token, 25) \in Word(4)
        /\ ReadBE64(token, 29) \in Word(8)
        /\ [k \in 1..32 |-> token[37 + k]] \in Seq(Byte)
    BY <2>1 DEF ReadLE64, ReadBE32, ReadBE64, Word
  <2>3. ParseHat(token) \in Hat
    BY <2>2 DEF ParseHat, Hat, Bytes
  <2> QED
    BY <2>3, HatAssumption
<1>5. DefaultHat.authenticatorType = NoType /\ Pinned(DefaultHat) = DefaultHat
  BY DEF DefaultHat, Pinned
<1>6. full => Pinned(ParseHat(token)).authenticatorType = NoType
  BY DEF ParseHat, Pinned
<1>7. full => HatToBytes([Pinned(ParseHat(token))
                            EXCEPT !.authenticatorType = ReadBE32(token, 25)]) = token
  BY <1>2, BytesRoundTrip
<1>8. CASE Did("onAuthenticated", token, OnAuthenticatedHat(token))
  <2>1. /\ step'.op = "onAuthenticated" /\ step'.arg = token
        /\ step'.res = IF full THEN Pinned(ParseHat(token)) ELSE DefaultHat
    BY <1>3, <1>4, <1>5, <1>8 DEF Did, OnAuthenticatedHat
  <2> QED
    BY <1>5, <1>6, <1>7, <2>1
    DEF IInv, StepOK, HatArrivesWhole, ReportedHatIsVendors, AdmittedIsRendered,
      PreviewCoversView
<1>9. CASE Did("sehOnAuthenticated", token, SehOnAuthenticatedHat(token))
  <2>1. /\ step'.op = "sehOnAuthenticated" /\ step'.arg = token
        /\ step'.res = IF full THEN Pinned(ParseHat(token)) ELSE None
    BY <1>3, <1>4, <1>9 DEF Did, SehOnAuthenticatedHat
  <2> QED
    BY <1>6, <1>7, <2>1
    DEF IInv, StepOK, HatArrivesWhole, ReportedHatIsVendors, AdmittedIsRendered,
      PreviewCoversView
<1> QED
  BY <1>1, <1>8, <1>9

LEMMA FrameHandedOn ==
  ASSUME NEW f \in Frames, SehOnPreviewFrame(f)
  PROVE  IInv'
<1>1. f \in Frame
  BY DataAssumption
<1>2. /\ step'.op = "sehOnPreviewFrame" /\ step'.arg = f
      /\ step'.res = IF Admitted(f) THEN [size |-> Int32Size(f), w |-> f.w, h |-> f.h]
                                    ELSE None
  BY DEF SehOnPreviewFrame, Did
<1>3. CASE Admitted(f)
  <2>1. /\ step'.res.size = f.lo /\ step'.res.w = f.w /\ step'.res.h = f.h
        /\ Renders(f.lo, f.w, f.h) /\ f.w \in Int /\ f.h \in Int
    BY <1>1, <1>2, <1>3, AdmittedRenders DEF Frame
  <2> HIDE DEF Frame
  <2> QED
    BY <1>2, <2>1
    DEF IInv, StepOK, HatArrivesWhole, ReportedHatIsVendors, AdmittedIsRendered,
      PreviewCoversView
<1>4. CASE ~Admitted(f)
  BY <1>2, <1>4
  DEF IInv, StepOK, HatArrivesWhole, ReportedHatIsVendors, AdmittedIsRendered,
      PreviewCoversView
<1> QED
  BY <1>3, <1>4

LEMMA PlacementType ==
  ASSUME NEW w \in Int, NEW h \in Int, NEW v \in Views
  PROVE  Placement(w, h, v.vw, v.vh, v.turn)
           \in [left: Int, right: Int, top: Int, bottom: Int, unit: Int]
<1> DEFINE num == Num(w, h, v.vw, v.vh, v.turn)
           den == Den(w, h, v.vw, v.vh, v.turn)
<1>1. v.vw \in Int /\ v.vh \in Int /\ v.turn \in {0, 90, 180, 270}
  BY DataAssumption
<1>2. Rotation(v.turn) \in {0, 90, 180, 270}
  BY <1>1 DEF Rotation
<1>3. SrcW(w, h, v.turn) \in Int /\ SrcH(w, h, v.turn) \in Int
  BY DEF SrcW, SrcH
<1>4. num \in Int /\ den \in Int
  BY <1>1, <1>3 DEF Num, Den
<1> HIDE DEF num, den
<1>5. ASSUME NEW x \in Int, NEW y \in Int
      PROVE  /\ Drawn(<<x, y>>, w, h, v.vw, v.vh, v.turn)[1] \in Int
             /\ Drawn(<<x, y>>, w, h, v.vw, v.vh, v.turn)[2] \in Int
  <2> DEFINE rot == Rotate(<<2 * x, 2 * y>>, w, h, Rotation(v.turn))
             half == Unswap(rot, w, h, v.turn)
  <2>1. rot[1] \in Int /\ rot[2] \in Int
    BY <1>2 DEF Rotate
  <2> HIDE DEF rot
  <2>2. half[1] \in Int /\ half[2] \in Int
    BY <2>1 DEF Unswap
  <2> HIDE DEF half
  <2>3. Drawn(<<x, y>>, w, h, v.vw, v.vh, v.turn)
          = <<half[1] * num + (v.vw * den - SrcW(w, h, v.turn) * num),
              half[2] * num + (v.vh * den - SrcH(w, h, v.turn) * num)>>
    BY DEF Drawn, half, rot, num, den
  <2> QED
    BY <1>1, <1>3, <1>4, <2>2, <2>3
<1> QED
  BY <1>4, <1>5 DEF Placement, den

\* Before it is scaled, the bitmap lies between the origin and the size it has
\* when turned; coordinates are in half pixels.
LEMMA TurnedCorners ==
  ASSUME NEW w \in Int, NEW h \in Int, NEW turn \in {0, 90, 180, 270}
  PROVE  LET a == Unswap(Rotate(<<2 * 0, 2 * 0>>, w, h, Rotation(turn)), w, h, turn)
             b == Unswap(Rotate(<<2 * w, 2 * h>>, w, h, Rotation(turn)), w, h, turn)
             W == 2 * SrcW(w, h, turn)
             H == 2 * SrcH(w, h, turn)
         IN /\ (a[1] = 0 /\ b[1] = W) \/ (a[1] = W /\ b[1] = 0)
            /\ (a[2] = 0 /\ b[2] = H) \/ (a[2] = H /\ b[2] = 0)
<1>1. CASE turn = 0
  BY <1>1 DEF Rotation, Swapped, Rotate, Unswap, SrcW, SrcH
<1>2. CASE turn = 90
  BY <1>2 DEF Rotation, Swapped, Rotate, Unswap, SrcW, SrcH
<1>3. CASE turn = 180
  BY <1>3 DEF Rotation, Swapped, Rotate, Unswap, SrcW, SrcH
<1>4. CASE turn = 270
  BY <1>4 DEF Rotation, Swapped, Rotate, Unswap, SrcW, SrcH
<1> QED
  BY <1>1, <1>2, <1>3, <1>4

\* The preview covers the view, for every frame and view.
LEMMA Covers ==
  ASSUME NEW w \in Int, NEW h \in Int, w > 0, h > 0, NEW v \in Views
  PROVE  LET r == Placement(w, h, v.vw, v.vh, v.turn)
             vw == v.vw * r.unit
             vh == v.vh * r.unit
         IN /\ r.left <= 0 /\ r.right >= vw /\ r.left + r.right = vw
            /\ r.top <= 0 /\ r.bottom >= vh /\ r.top + r.bottom = vh
            /\ r.left = 0 \/ r.top = 0
<1> DEFINE num == Num(w, h, v.vw, v.vh, v.turn)
           den == Den(w, h, v.vw, v.vh, v.turn)
           sw == SrcW(w, h, v.turn)
           sh == SrcH(w, h, v.turn)
           a == Drawn(<<0, 0>>, w, h, v.vw, v.vh, v.turn)
           b == Drawn(<<w, h>>, w, h, v.vw, v.vh, v.turn)
           x == v.vw * den
           y == v.vh * den
           dx == sw * num
           dy == sh * num
           r == Placement(w, h, v.vw, v.vh, v.turn)
<1>1. v.vw \in Nat \ {0} /\ v.vh \in Nat \ {0} /\ v.turn \in {0, 90, 180, 270}
  BY DataAssumption
<1>2. sw \in Int /\ sh \in Int
  BY DEF SrcW, SrcH
<1>3. num \in Int /\ den \in Int
  BY <1>1, <1>2 DEF Num, Den
<1>4. /\ x \in Int /\ y \in Int /\ dx \in Int /\ dy \in Int
      /\ dx >= x /\ dy >= y /\ (dx = x \/ dy = y)
  <2>1. CASE WiderThanView(w, h, v.vw, v.vh, v.turn)
    <3>1. num = v.vh /\ den = sh /\ sw * v.vh > v.vw * sh
      BY <2>1 DEF Num, Den, WiderThanView
    <3>2. y = dy
      <4> HIDE DEF num, den, sw, sh
      <4> QED
        BY <1>1, <1>2, <3>1
    <3> QED
      BY <1>1, <1>2, <1>3, <3>1, <3>2
  <2>2. CASE ~WiderThanView(w, h, v.vw, v.vh, v.turn)
    <3>1. num = v.vw /\ den = sw /\ ~(sw * v.vh > v.vw * sh)
      BY <2>2 DEF Num, Den, WiderThanView
    <3>2. x = dx /\ dy = v.vw * sh /\ y = sw * v.vh
      <4> HIDE DEF num, den, sw, sh
      <4> QED
        BY <1>1, <1>2, <3>1
    <3> QED
      BY <1>1, <1>2, <1>3, <3>1, <3>2
  <2> QED
    BY <2>1, <2>2
<1>5. /\ (a[1] = x - dx /\ b[1] = x + dx) \/ (a[1] = x + dx /\ b[1] = x - dx)
      /\ (a[2] = y - dy /\ b[2] = y + dy) \/ (a[2] = y + dy /\ b[2] = y - dy)
  <2> DEFINE ha == Unswap(Rotate(<<2 * 0, 2 * 0>>, w, h, Rotation(v.turn)), w, h, v.turn)
             hb == Unswap(Rotate(<<2 * w, 2 * h>>, w, h, Rotation(v.turn)), w, h, v.turn)
  <2>1. /\ (ha[1] = 0 /\ hb[1] = 2 * sw) \/ (ha[1] = 2 * sw /\ hb[1] = 0)
        /\ (ha[2] = 0 /\ hb[2] = 2 * sh) \/ (ha[2] = 2 * sh /\ hb[2] = 0)
    BY <1>1, TurnedCorners
  <2>2. /\ a = <<ha[1] * num + (x - dx), ha[2] * num + (y - dy)>>
        /\ b = <<hb[1] * num + (x - dx), hb[2] * num + (y - dy)>>
    BY DEF Drawn
  <2> HIDE DEF ha, hb, a, b
  <2>3. 0 * num = 0 /\ (2 * sw) * num = 2 * dx /\ (2 * sh) * num = 2 * dy
    <3> HIDE DEF num, sw, sh
    <3> QED
      BY <1>2, <1>3
  <2> HIDE DEF x, y, dx, dy, num, sw, sh
  <2> QED
    BY <1>4, <2>1, <2>2, <2>3
<1>6. /\ r.left = IF a[1] <= b[1] THEN a[1] ELSE b[1]
      /\ r.right = IF a[1] <= b[1] THEN b[1] ELSE a[1]
      /\ r.top = IF a[2] <= b[2] THEN a[2] ELSE b[2]
      /\ r.bottom = IF a[2] <= b[2] THEN b[2] ELSE a[2]
      /\ r.unit = 2 * den
  BY DEF Placement
<1>7. dx >= 0 /\ dy >= 0
  <2>1. x >= 0 /\ y >= 0
    <3>1. den >= 0
      BY DEF Den, SrcW, SrcH
    <3> HIDE DEF den
    <3> QED
      BY <1>1, <1>3, <3>1
  <2> HIDE DEF x, y, dx, dy
  <2> QED
    BY <1>4, <2>1
<1>8. v.vw * (2 * den) = 2 * x /\ v.vh * (2 * den) = 2 * y
  <2> HIDE DEF den
  <2> QED
    BY <1>1, <1>3
<1> HIDE DEF x, y, dx, dy, a, b, r, den
<1>9. /\ r.left = x - dx /\ r.right = x + dx
      /\ r.top = y - dy /\ r.bottom = y + dy
  BY <1>4, <1>5, <1>6, <1>7
<1>10. /\ r.left <= 0 /\ r.right >= v.vw * r.unit /\ r.left + r.right = v.vw * r.unit
       /\ r.top <= 0 /\ r.bottom >= v.vh * r.unit /\ r.top + r.bottom = v.vh * r.unit
       /\ r.left = 0 \/ r.top = 0
  BY <1>4, <1>6, <1>8, <1>9
<1> QED
  BY <1>10 DEF r

LEMMA FrameRendered ==
  ASSUME IInv, NEW v \in Views, RenderFrame(v)
  PROVE  IInv'
<1>1. /\ step'.op = "renderFrame" /\ step'.arg = v
      /\ step'.res = Placement(step.res.w, step.res.h, v.vw, v.vh, v.turn)
  BY DEF RenderFrame, Did, IInv, StepOK
<1>2. step'.res # None
  <2>1. step.res.w \in Int /\ step.res.h \in Int
    BY DEF RenderFrame, IInv, StepOK
  <2>2. Placement(step.res.w, step.res.h, v.vw, v.vh, v.turn)
          \in [left: Int, right: Int, top: Int, bottom: Int, unit: Int]
    BY <2>1, PlacementType, Zenon
  <2> QED
    BY <1>1, <2>2, DataAssumption, Zenon
<1>3. PreviewCoversView'
  <2>1. step.res.w \in Int /\ step.res.h \in Int /\ step.res.w > 0 /\ step.res.h > 0
    BY DEF RenderFrame, IInv, StepOK, Renders
  <2> QED
    BY <1>1, <2>1, Covers DEF PreviewCoversView
<1> QED
  BY <1>1, <1>2, <1>3
  DEF IInv, StepOK, HatArrivesWhole, ReportedHatIsVendors, AdmittedIsRendered

\* The invariants are inductive together with StepOK.
THEOREM DataInvariant == Spec => []IInv
<1>1. Init => IInv
  BY DEF Init, Start, IInv, StepOK, HatArrivesWhole, ReportedHatIsVendors,
         AdmittedIsRendered, PreviewCoversView
<1>2. IInv /\ [Next]_step => IInv'
  <2> SUFFICES ASSUME IInv, [Next]_step PROVE IInv'
    OBVIOUS
  <2>1. CASE UNCHANGED step
    BY <2>1 DEF IInv, StepOK, HatArrivesWhole, ReportedHatIsVendors,
                AdmittedIsRendered, PreviewCoversView
  <2>2. CASE Next
    BY <2>2, TokenSent, TokenReported, FrameHandedOn, FrameRendered DEF Next
  <2> QED
    BY <2>1, <2>2
<1> QED
  BY <1>1, <1>2, PTL DEF Spec

\* A token that is sent is the framework's, for every token.
THEOREM TokensArriveWhole == Spec => []HatArrivesWhole
BY DataInvariant, PTL DEF IInv

\* A token the framework is told of is the vendor HAL's, for every vector.
THEOREM ReportedTokensAreVendors == Spec => []ReportedHatIsVendors
BY DataInvariant, PTL DEF IInv

\* The bridge and the view admit the same frames, for every size.
THEOREM AdmittedFramesAreRendered == Spec => []AdmittedIsRendered
BY DataInvariant, PTL DEF IInv

\* The preview covers the view, for every frame, view and rotation.
THEOREM PreviewAlwaysCovers == Spec => []PreviewCoversView
BY DataInvariant, PTL DEF IInv
=============================================================================
