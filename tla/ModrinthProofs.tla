--------------------------- MODULE ModrinthProofs ---------------------------
(***************************************************************************)
(* What a reader of the rate limit, a caller that chooses a version and a  *)
(* caller that builds a page may rely on, for every number of threads,     *)
(* whatever they call and whatever is answered.                            *)
(***************************************************************************)
EXTENDS Modrinth, SequenceTheorems, WellFoundedInduction, TLAPS

FieldNames == {"limit", "remaining", "reset"}

(* The lines of an answer that are still to come. *)
Left == {<<>>, <<"reset">>, <<"remaining", "reset">>, <<"limit", "remaining", "reset">>}

IsRequest(r) ==
  /\ r = [st |-> r.st, of |-> r.of, lines |-> r.lines, alone |-> r.alone, tag |-> r.tag]
  /\ r.lines \in Left /\ r.tag \in Nat

(* What has come of an answer that no other has crossed is in the client.   *)
Fresh(r) ==
  r.st = "open" /\ r.alone =>
    /\ r.lines = <<"remaining", "reset">> => rl["limit"] = r.tag
    /\ r.lines = <<"reset">> => rl["limit"] = r.tag /\ rl["remaining"] = r.tag

TypeOK ==
  /\ asked \in Nat /\ settled \in Nat
  /\ rl \in [FieldNames -> Nat]
  /\ reader = [got |-> reader.got, steady |-> reader.steady]
  /\ reader.got \in Seq(Nat) /\ reader.steady \in Nat
  /\ DOMAIN req = Threads
  /\ \A t \in Threads : IsRequest(req[t])

(* The last answer that came in whole and alone is in the client, and a     *)
(* reader that saw no other has read from that one only.                    *)
SnapshotInv ==
  /\ \A t \in Threads : Fresh(req[t])
  /\ settled # 0 => \A f \in FieldNames : rl[f] = settled
  /\ reader.steady # 0 => \A i \in DOMAIN reader.got : reader.got[i] = reader.steady

IInv == TypeOK /\ SnapshotInv

-----------------------------------------------------------------------------
LEMMA InitIInv == Init => IInv
<1> SUFFICES ASSUME Init PROVE IInv
  OBVIOUS
<1>1. Range(Fields) = FieldNames
  BY DEF Range, Fields, FieldNames
<1>2. /\ rl = [f \in FieldNames |-> 0] /\ req = [t \in Threads |-> NoRequest]
      /\ asked = 0 /\ settled = 0 /\ reader = [got |-> <<>>, steady |-> 0]
  BY <1>1 DEF Init, NetInit
<1>3. IsRequest(NoRequest) /\ NoRequest.st = "none"
  BY DEF IsRequest, NoRequest, Left
<1>4. \A t \in Threads : req[t] = NoRequest
  BY <1>2
<1> QED
  BY <1>2, <1>3, <1>4 DEF IInv, TypeOK, SnapshotInv, Fresh

(* A step that leaves the client's fields alone, and no request half read   *)
(* but those that were so before. *)
Apart ==
  /\ UNCHANGED <<rl, settled, reader>>
  /\ asked' \in Nat
  /\ DOMAIN req' = Threads
  /\ \A t \in Threads :
       \/ req'[t] = req[t]
       \/ /\ IsRequest(req'[t])
          /\ req'[t].st # "open" \/ req'[t].lines \in {<<>>, <<"limit", "remaining", "reset">>}

LEMMA ApartKeeps == IInv /\ Apart => IInv'
<1> SUFFICES ASSUME IInv, Apart PROVE IInv'
  OBVIOUS
<1>1. TypeOK'
  BY DEF IInv, TypeOK, Apart
<1>2. ASSUME NEW t \in Threads PROVE Fresh(req[t])'
  <2>1. CASE req'[t] = req[t]
    BY <2>1 DEF Fresh, IInv, SnapshotInv, Apart
  <2>2. CASE req'[t].st # "open"
    BY <2>2 DEF Fresh
  <2>3. CASE req'[t].lines \in {<<>>, <<"limit", "remaining", "reset">>}
    <3>1. req'[t].lines # <<"reset">> /\ req'[t].lines # <<"remaining", "reset">>
      BY <2>3
    <3> QED
      BY <3>1 DEF Fresh
  <2> QED
    BY <2>1, <2>2, <2>3 DEF Apart
<1>3. SnapshotInv'
  BY <1>2 DEF IInv, SnapshotInv, Apart
<1> QED
  BY <1>1, <1>3 DEF IInv

-----------------------------------------------------------------------------
(* The lines of an answer, one after the other. *)
LEMMA LinesLeft ==
  ASSUME NEW l \in Left
  PROVE  \/ l = <<>>
         \/ /\ l = <<"reset">> /\ Head(l) = "reset" /\ Tail(l) = <<>> /\ Len(l) = 1
         \/ /\ l = <<"remaining", "reset">> /\ Head(l) = "remaining"
            /\ Tail(l) = <<"reset">> /\ Len(l) = 2
         \/ /\ l = <<"limit", "remaining", "reset">> /\ Head(l) = "limit"
            /\ Tail(l) = <<"remaining", "reset">> /\ Len(l) = 3
<1>1. CASE l = <<>>
  BY <1>1
<1>2. CASE l = <<"reset">>
  BY <1>2
<1>3. CASE l = <<"remaining", "reset">>
  BY <1>3
<1>4. CASE l = <<"limit", "remaining", "reset">>
  BY <1>4
<1> QED
  BY <1>1, <1>2, <1>3, <1>4 DEF Left

LEMMA LeftDiffer ==
  /\ <<>> # <<"reset">> /\ <<>> # <<"remaining", "reset">>
  /\ <<"reset">> # <<"remaining", "reset">>
  OBVIOUS

LEMMA Trimmed ==
  ASSUME NEW r, IsRequest(r), NEW l \in Left, NEW a,
         NEW q, q = [r EXCEPT !.lines = l, !.alone = a]
  PROVE  IsRequest(q) /\ q.lines = l /\ q.alone = a /\ q.st = r.st /\ q.tag = r.tag
  BY DEF IsRequest

LEMMA Crossed ==
  ASSUME NEW r, IsRequest(r), NEW q, q = [r EXCEPT !.alone = FALSE]
  PROVE  IsRequest(q) /\ q.lines = r.lines /\ ~q.alone /\ q.st = r.st /\ q.tag = r.tag
<1>1. r = [st |-> r.st, of |-> r.of, lines |-> r.lines, alone |-> r.alone, tag |-> r.tag]
      /\ r.lines \in Left /\ r.tag \in Nat
  BY DEF IsRequest
<1>2. q = [st |-> r.st, of |-> r.of, lines |-> r.lines, alone |-> FALSE, tag |-> r.tag]
  BY <1>1
<1> QED
  BY <1>1, <1>2 DEF IsRequest

(* What a line of the header of t's answer does to the client.              *)
LEMMA LineStores ==
  ASSUME IInv, NEW t \in Threads, HeaderLine(t)
  PROVE  LET r == req[t] IN
         /\ r.st = "open" /\ r.tag \in Nat /\ rl' \in [FieldNames -> Nat]
         /\ \/ /\ r.lines = <<"reset">> /\ Tail(r.lines) = <<>> /\ Len(r.lines) = 1
               /\ rl' = [rl EXCEPT !["reset"] = r.tag]
            \/ /\ r.lines = <<"remaining", "reset">> /\ Tail(r.lines) = <<"reset">>
               /\ Len(r.lines) = 2 /\ rl' = [rl EXCEPT !["remaining"] = r.tag]
            \/ /\ r.lines = <<"limit", "remaining", "reset">>
               /\ Tail(r.lines) = <<"remaining", "reset">>
               /\ Len(r.lines) = 3 /\ rl' = [rl EXCEPT !["limit"] = r.tag]
<1> DEFINE l == req[t].lines
           tag == req[t].tag
<1>1. req[t].st = "open" /\ l # <<>> /\ rl' = [rl EXCEPT ![Head(l)] = tag]
  BY DEF HeaderLine, Parse
<1>2. l \in Left /\ tag \in Nat /\ rl \in [FieldNames -> Nat]
  BY DEF IInv, TypeOK, IsRequest
<1> HIDE DEF l, tag
<1>3. \/ l = <<"reset">> /\ Head(l) = "reset" /\ Tail(l) = <<>> /\ Len(l) = 1
      \/ /\ l = <<"remaining", "reset">> /\ Head(l) = "remaining"
         /\ Tail(l) = <<"reset">> /\ Len(l) = 2
      \/ /\ l = <<"limit", "remaining", "reset">> /\ Head(l) = "limit"
         /\ Tail(l) = <<"remaining", "reset">> /\ Len(l) = 3
  BY <1>1, <1>2, LinesLeft
<1>4. rl' \in [FieldNames -> Nat]
  BY <1>1, <1>2
<1> QED
  BY <1>1, <1>2, <1>3, <1>4 DEF l, tag

(* A line of the header.  Another answer that is half read is not alone any *)
(* more, and neither is this one if there is such an answer.                *)
LEMMA LineKeeps ==
  ASSUME IInv, NEW t \in Threads, HeaderLine(t)
  PROVE  IInv'
<1> DEFINE r == req[t]
           others == {u \in Threads \ {t} : Midway(u)}
           alone == (Len(r.lines) = Len(Fields) \/ r.alone) /\ others = {}
<1>1. /\ req' = [u \in Threads |->
                   IF u = t THEN [r EXCEPT !.lines = Tail(r.lines), !.alone = alone]
                   ELSE IF u \in others THEN [req[u] EXCEPT !.alone = FALSE] ELSE req[u]]
      /\ settled' = IF Len(r.lines) = 1 /\ alone THEN r.tag ELSE 0
      /\ UNCHANGED <<asked, reader>>
  BY DEF HeaderLine
<1>2. \A u \in Threads : IsRequest(req[u])
  BY DEF IInv, TypeOK
<1>3. /\ r.st = "open" /\ r.tag \in Nat /\ rl' \in [FieldNames -> Nat]
      /\ \/ /\ r.lines = <<"reset">> /\ Tail(r.lines) = <<>> /\ Len(r.lines) = 1
            /\ rl' = [rl EXCEPT !["reset"] = r.tag]
         \/ /\ r.lines = <<"remaining", "reset">> /\ Tail(r.lines) = <<"reset">>
            /\ Len(r.lines) = 2 /\ rl' = [rl EXCEPT !["remaining"] = r.tag]
         \/ /\ r.lines = <<"limit", "remaining", "reset">>
            /\ Tail(r.lines) = <<"remaining", "reset">>
            /\ Len(r.lines) = 3 /\ rl' = [rl EXCEPT !["limit"] = r.tag]
  BY LineStores
<1>4. Tail(r.lines) \in Left
  BY <1>3 DEF Left
<1>5. /\ IsRequest(req'[t]) /\ req'[t].lines = Tail(r.lines)
      /\ req'[t].alone = alone /\ req'[t].tag = r.tag
  <2> HIDE DEF alone
  <2>1. req'[t] = [r EXCEPT !.lines = Tail(r.lines), !.alone = alone]
    BY <1>1
  <2>2. IsRequest(r)
    BY <1>2
  <2> HIDE DEF r
  <2> QED
    BY <1>4, <2>1, <2>2 DEF IsRequest
<1>6. Fields = <<"limit", "remaining", "reset">> /\ Len(Fields) = 3
  BY DEF Fields
<1>7. (alone /\ Len(r.lines) # 3) => r.alone
  BY <1>6
<1>8. ASSUME NEW u \in Threads \ {t}
      PROVE  IsRequest(req'[u]) /\ ((req'[u] = req[u] /\ u \notin others) \/ ~req'[u].alone)
  <2> HIDE DEF others
  <2>1. CASE u \in others
    <3>1. req'[u] = [req[u] EXCEPT !.alone = FALSE]
      BY <1>1, <2>1
    <3> QED
      BY <1>2, <3>1, Crossed
  <2>2. CASE u \notin others
    BY <1>1, <1>2, <2>2
  <2> QED
    BY <2>1, <2>2
<1>9. ASSUME NEW u \in Threads \ {t} PROVE Fresh(req[u])'
  <2>1. CASE req'[u] = req[u] /\ u \notin others
    <3>1. req[u].st # "open" \/ Len(req[u].lines) \notin 1 .. 2
      <4>1. ~Midway(u)
        BY <2>1
      <4>2. Len(Fields) - 1 = 2
        BY <1>6
      <4> QED
        BY <4>1, <4>2 DEF Midway
    <3>2. Len(<<"reset">>) \in 1 .. 2 /\ Len(<<"remaining", "reset">>) \in 1 .. 2
      OBVIOUS
    <3>3. \/ req[u].st # "open"
          \/ req[u].lines # <<"reset">> /\ req[u].lines # <<"remaining", "reset">>
      BY <3>1, <3>2
    <3> QED
      BY <2>1, <3>3 DEF Fresh
  <2>2. CASE ~req'[u].alone
    BY <2>2 DEF Fresh
  <2> QED
    BY <1>8, <2>1, <2>2
<1> HIDE DEF others, alone, r
<1>10. Fresh(r)
  BY DEF IInv, SnapshotInv, r
<1>11. rl \in [FieldNames -> Nat]
  BY DEF IInv, TypeOK
<1>12. Fresh(req[t])'
  <2> SUFFICES ASSUME alone
               PROVE  /\ Tail(r.lines) = <<"remaining", "reset">> => rl'["limit"] = r.tag
                      /\ Tail(r.lines) = <<"reset">> =>
                           rl'["limit"] = r.tag /\ rl'["remaining"] = r.tag
    BY <1>5 DEF Fresh
  <2>1. CASE Len(r.lines) = 3
    <3>1. Tail(r.lines) = <<"remaining", "reset">> /\ rl' = [rl EXCEPT !["limit"] = r.tag]
      BY <1>3, <2>1
    <3> QED
      BY <1>11, <3>1, LeftDiffer DEF FieldNames
  <2>2. CASE Len(r.lines) = 2
    <3>1. /\ r.lines = <<"remaining", "reset">> /\ Tail(r.lines) = <<"reset">>
          /\ rl' = [rl EXCEPT !["remaining"] = r.tag]
      BY <1>3, <2>2
    <3>2. r.alone
      BY <1>7, <2>2
    <3>3. rl["limit"] = r.tag
      BY <1>3, <1>10, <3>1, <3>2 DEF Fresh
    <3> QED
      BY <1>11, <3>1, <3>3, LeftDiffer DEF FieldNames
  <2>3. CASE Len(r.lines) = 1
    <3>1. Tail(r.lines) = <<>>
      BY <1>3, <2>3
    <3> QED
      BY <3>1, LeftDiffer
  <2> QED
    BY <1>3, <2>1, <2>2, <2>3
<1>13. settled' # 0 => \A f \in FieldNames : rl'[f] = settled'
  <2> SUFFICES ASSUME Len(r.lines) = 1, alone
               PROVE  \A f \in FieldNames : rl'[f] = r.tag
    BY <1>1
  <2>1. r.lines = <<"reset">> /\ rl' = [rl EXCEPT !["reset"] = r.tag]
    BY <1>3
  <2>2. r.alone
    BY <1>7
  <2>3. rl["limit"] = r.tag /\ rl["remaining"] = r.tag
    BY <1>3, <1>10, <2>1, <2>2 DEF Fresh
  <2> QED
    BY <1>11, <2>1, <2>3 DEF FieldNames
<1>14. TypeOK'
  <2>1. settled' \in Nat /\ DOMAIN req' = Threads
    BY <1>1, <1>3
  <2>2. \A u \in Threads : IsRequest(req'[u])
    BY <1>5, <1>8
  <2> QED
    BY <1>1, <1>3, <2>1, <2>2 DEF IInv, TypeOK
<1>15. SnapshotInv'
  <2>1. \A u \in Threads : Fresh(req[u])'
    BY <1>9, <1>12
  <2>2. reader' = reader
    BY <1>1
  <2> QED
    BY <1>13, <2>1, <2>2 DEF IInv, SnapshotInv
<1> QED
  BY <1>14, <1>15 DEF IInv

(* The reader goes on only with what it began with. *)
LEMMA ReadKeeps == IInv /\ ReadField => IInv'
<1> SUFFICES ASSUME IInv, ReadField PROVE IInv'
  OBVIOUS
<1> DEFINE x == rl[Fields[Len(reader.got) + 1]]
           steady == IF reader.got = <<>> \/ settled = reader.steady THEN settled ELSE 0
<1>1. /\ Len(reader.got) \in 0 .. 2
      /\ reader' = [got |-> Append(reader.got, x), steady |-> steady]
      /\ UNCHANGED <<rl, asked, req, settled>>
  <2>1. reader.got \in Seq(Nat) /\ Len(Fields) = 3
    BY DEF IInv, TypeOK, Fields
  <2>2. Len(reader.got) < Len(Fields) /\ UNCHANGED <<rl, asked, req, settled>>
    BY DEF ReadField, shared
  <2>3. Len(reader.got) \in 0 .. 2
    <3> DEFINE n == Len(reader.got)
    <3>1. n \in Nat /\ n < 3
      BY <2>1, <2>2
    <3> HIDE DEF n
    <3>2. n \in 0 .. 2
      BY <3>1
    <3> QED
      BY <3>2 DEF n
  <2> QED
    BY <2>2, <2>3 DEF ReadField
<1>2. Fields[Len(reader.got) + 1] \in FieldNames
  <2>1. \A n \in 0 .. 2 : Fields[n + 1] \in FieldNames
    BY DEF Fields, FieldNames
  <2> QED
    BY <1>1, <2>1
<1>3. x \in Nat /\ (settled # 0 => x = settled) /\ steady \in Nat
  BY <1>2 DEF IInv, TypeOK, SnapshotInv
<1> HIDE DEF x
<1>4. TypeOK'
  BY <1>1, <1>3 DEF IInv, TypeOK
<1>5. steady # 0 => \A i \in DOMAIN Append(reader.got, x) : Append(reader.got, x)[i] = steady
  <2> SUFFICES ASSUME steady # 0, NEW i \in DOMAIN Append(reader.got, x)
               PROVE  Append(reader.got, x)[i] = steady
    OBVIOUS
  <2>1. steady = settled /\ x = steady
    BY <1>3
  <2>2. reader.got \in Seq(Nat) /\ i \in 1 .. Len(reader.got) + 1
    BY <1>3, AppendProperties, LenProperties DEF IInv, TypeOK
  <2>3. CASE i = Len(reader.got) + 1
    BY <1>3, <2>1, <2>2, <2>3, AppendProperties
  <2>4. CASE i # Len(reader.got) + 1
    <3>1. i \in 1 .. Len(reader.got) /\ Append(reader.got, x)[i] = reader.got[i]
      BY <1>3, <2>2, <2>4, AppendProperties, LenProperties
    <3>2. reader.got # <<>> /\ i \in DOMAIN reader.got
      BY <2>2, <3>1, LenProperties
    <3>3. reader.steady = settled
      BY <2>1, <3>2
    <3> QED
      BY <2>1, <3>1, <3>2, <3>3 DEF IInv, SnapshotInv
  <2> QED
    BY <2>3, <2>4
<1>6. SnapshotInv'
  BY <1>1, <1>5 DEF IInv, SnapshotInv, Fresh
<1> QED
  BY <1>4, <1>6 DEF IInv

-----------------------------------------------------------------------------
(* The other steps store nothing, and open, end or forget one request. *)

(* One request is made anew, with no line of its answer read. *)
LEMMA AnewIsApart ==
  ASSUME IInv, NEW t, NEW r,
         IsRequest(r), r.st # "open" \/ r.lines \in {<<>>, <<"limit", "remaining", "reset">>},
         req' = [req EXCEPT ![t] = r],
         asked' \in Nat, UNCHANGED <<rl, settled, reader>>
  PROVE  Apart
<1>1. DOMAIN req = Threads
  BY DEF IInv, TypeOK
<1>2. \A u \in Threads : req'[u] = req[u] \/ req'[u] = r
  BY <1>1
<1> QED
  BY <1>1, <1>2 DEF Apart

LEMMA RequestIsApart ==
  ASSUME IInv, NEW t, NEW of, Request(t, of)
  PROVE  Apart
<1>1. asked \in Nat /\ UNCHANGED <<rl, settled, reader>>
  BY DEF IInv, TypeOK, Request
<1>2. CASE RequestOpens(t, of)
  <2>1. PICK lines \in {<<>>, Fields} :
          req' = [req EXCEPT ![t] = [st |-> "open", of |-> of, lines |-> lines,
                                     alone |-> TRUE, tag |-> asked + 1]]
    BY <1>2 DEF RequestOpens
  <2>2. lines \in {<<>>, <<"limit", "remaining", "reset">>} /\ lines \in Left
    BY DEF Fields, Left
  <2>3. asked' \in Nat
    BY <1>1, <1>2 DEF RequestOpens
  <2> DEFINE r == [st |-> "open", of |-> of, lines |-> lines, alone |-> TRUE,
                   tag |-> asked + 1]
  <2>4. IsRequest(r) /\ r.lines \in {<<>>, <<"limit", "remaining", "reset">>}
    BY <1>1, <2>2 DEF IsRequest
  <2>5. req' = [req EXCEPT ![t] = r]
    BY <2>1
  <2> HIDE DEF r
  <2> QED
    BY <1>1, <2>3, <2>4, <2>5, AnewIsApart
<1>3. CASE RequestRefused(t, of)
  <2> DEFINE r == [NoRequest EXCEPT !.st = "failed", !.of = of]
  <2>1. req' = [req EXCEPT ![t] = r] /\ asked' = asked
    BY <1>3 DEF RequestRefused
  <2>2. IsRequest(NoRequest) /\ r = [NoRequest EXCEPT !.st = "failed", !.of = of]
    BY DEF NoRequest, IsRequest, Left
  <2> HIDE DEF r
  <2>3. IsRequest(r) /\ r.st = "failed"
    BY <2>2 DEF IsRequest
  <2> QED
    BY <1>1, <2>1, <2>3, AnewIsApart
<1> QED
  BY <1>2, <1>3 DEF Request

LEMMA RestIsApart ==
  ASSUME IInv, NEW t, Rest(t), Quiet
  PROVE  Apart
<1>1. IsRequest(NoRequest) /\ NoRequest.lines = <<>>
  BY DEF NoRequest, IsRequest, Left
<1>2. req' = [req EXCEPT ![t] = NoRequest] /\ UNCHANGED <<rl, asked, settled, reader>>
  BY DEF Rest, Quiet, shared
<1>3. asked \in Nat
  BY DEF IInv, TypeOK
<1> QED
  BY <1>1, <1>2, <1>3, AnewIsApart

LEMMA QuietIsApart ==
  ASSUME IInv, UNCHANGED <<rl, asked, req, settled, reader>>
  PROVE  Apart
  BY DEF IInv, TypeOK, Apart

LEMMA TransferIsApart ==
  ASSUME IInv, NEW t \in Threads, TransferFails(t) \/ TransferEnds(t)
  PROVE  Apart
<1>1. IsRequest(req[t]) /\ asked \in Nat
  BY DEF IInv, TypeOK
<1>2. UNCHANGED <<rl, asked, settled, reader>>
  BY DEF TransferFails, TransferEnds, shared
<1>3. CASE TransferFails(t)
  <2> DEFINE r == [req[t] EXCEPT !.st = "failed", !.lines = <<>>]
  <2>1. req' = [req EXCEPT ![t] = r]
    BY <1>3 DEF TransferFails, IInv, TypeOK
  <2>2. <<>> \in Left /\ r = [req[t] EXCEPT !.st = "failed", !.lines = <<>>]
    BY DEF Left
  <2> HIDE DEF r
  <2>3. IsRequest(r) /\ r.lines = <<>>
    BY <1>1, <2>2 DEF IsRequest
  <2> QED
    BY <1>1, <1>2, <2>1, <2>3, AnewIsApart
<1>4. CASE TransferEnds(t)
  <2> DEFINE r == [req[t] EXCEPT !.st = "ok"]
  <2>1. req' = [req EXCEPT ![t] = r]
    BY <1>4 DEF TransferEnds
  <2>2. IsRequest(r) /\ r.st = "ok"
    BY <1>1 DEF IsRequest
  <2> HIDE DEF r
  <2> QED
    BY <1>1, <1>2, <2>1, <2>2, AnewIsApart
<1> QED
  BY <1>3, <1>4

LEMMA NextIInv == IInv /\ [Next]_vars => IInv'
<1> SUFFICES ASSUME IInv, [Next]_vars PROVE IInv'
  OBVIOUS
<1> USE ApartKeeps
<1>1. ASSUME NEW t \in Threads, HeaderLine(t) PROVE IInv'
  BY <1>1, LineKeeps
<1>2. ASSUME NEW t \in Threads, BodyPiece(t) PROVE IInv'
  BY <1>2, QuietIsApart DEF BodyPiece, shared
<1>3. ASSUME NEW t \in Threads, TransferFails(t) \/ TransferEnds(t) PROVE IInv'
  BY <1>3, TransferIsApart
<1>4. CASE ReadField
  BY <1>4, ReadKeeps
<1>5. CASE SetHeader
  BY <1>5, QuietIsApart DEF SetHeader
<1>6. ASSUME NEW t \in Threads, CallStep(t) PROVE IInv'
  <2>1. CASE Search(t)
    BY <2>1, RequestIsApart DEF Search
  <2>2. CASE AskVersions(t)
    BY <2>2, RequestIsApart DEF AskVersions
  <2>3. CASE Choose(t) \/ Skip(t)
    BY <2>3, QuietIsApart DEF Choose, Skip, netVars, shared
  <2>4. CASE SearchUseless(t) \/ SearchUseful(t) \/ SearchGivenUp(t)
    BY <2>4, RestIsApart DEF SearchUseless, SearchUseful, SearchGivenUp
  <2>5. CASE VersionsUseless(t) \/ VersionsUseful(t)
    BY <2>5, RestIsApart DEF VersionsUseless, VersionsUseful
  <2>6. CASE BuildFails(t) \/ BuildEnds(t) \/ Return(t)
    BY <2>6, QuietIsApart DEF BuildFails, BuildEnds, Return, Quiet, shared
  <2> QED
    BY <1>6, <2>1, <2>2, <2>3, <2>4, <2>5, <2>6 DEF CallStep
<1>7. CASE UNCHANGED vars
  BY <1>7, QuietIsApart DEF vars, netVars, shared
<1> QED
  BY <1>1, <1>2, <1>3, <1>4, <1>5, <1>6, <1>7 DEF Next, NetStep

-----------------------------------------------------------------------------
(* A snapshot is what the three reads say: all of them the same answer.     *)
LEMMA SnapshotRead == IInv => ReadIsSnapshot
<1> SUFFICES ASSUME IInv, Len(reader.got) = Len(Fields), reader.steady # 0
             PROVE  Range(reader.got) = {reader.steady}
  BY DEF ReadIsSnapshot
<1>1. reader.got \in Seq(Nat) /\ Len(reader.got) = 3
  BY DEF IInv, TypeOK, Fields
<1>2. DOMAIN reader.got = 1 .. 3
  BY <1>1, LenProperties
<1>3. \A i \in DOMAIN reader.got : reader.got[i] = reader.steady
  BY DEF IInv, SnapshotInv
<1> QED
  BY <1>2, <1>3 DEF Range

(* Whatever threads call and whatever is answered, a reader of the rate     *)
(* limit that saw one whole answer, alone, has read that answer's numbers.  *)
THEOREM SnapshotHolds == Spec => []ReadIsSnapshot
<1>1. Init => IInv
  BY InitIInv
<1>2. IInv /\ [Next]_vars => IInv'
  BY NextIInv
<1>3. IInv => ReadIsSnapshot
  BY SnapshotRead
<1> QED
  BY <1>1, <1>2, <1>3, PTL DEF Spec

-----------------------------------------------------------------------------
(* The choice of a version.  A recursive function is some function that      *)
(* satisfies its equation; that there is one, and what it gives, is shown   *)
(* by induction, in the form of a least number that is left out.            *)

(* Every non-empty set of numbers has a least one; so a set that has 0, and *)
(* n + 1 with n, has them all.                                              *)
LEMMA Least ==
  ASSUME NEW T, T \subseteq Nat, T # {}
  PROVE  \E x \in T : \A y \in T : ~(y < x)
<1> DEFINE R == {q \in Nat \X Nat : q[1] < q[2]}
<1>1. IsWellFoundedOn(R, Nat)
  BY NatLessThanWellFounded DEF OpToRel
<1>2. ASSUME NEW x \in Nat, NEW y \in Nat, x < y PROVE <<x, y>> \in R
  <2>1. <<x, y>> \in Nat \X Nat /\ <<x, y>>[1] = x /\ <<x, y>>[2] = y
    OBVIOUS
  <2> QED
    BY <1>2, <2>1, Zenon
<1> HIDE DEF R
<1>3. PICK x \in T : \A y \in T : ~(<<y, x>> \in R)
  BY <1>1, WFMin
<1> QED
  BY <1>2, <1>3

(* Induction over the numbers, said of a set of them.                       *)
LEMMA Induction ==
  ASSUME NEW T, 0 \in T, \A n \in Nat : n \in T => n + 1 \in T
  PROVE  \A n \in Nat : n \in T
<1> SUFFICES ASSUME Nat \ T # {} PROVE FALSE
  OBVIOUS
<1>1. PICK x \in Nat \ T : \A y \in Nat \ T : ~(y < x)
  BY Least
<1>2. x - 1 \in Nat /\ x - 1 < x /\ x = (x - 1) + 1
  BY <1>1
<1>3. x - 1 \in T
  BY <1>1, <1>2
<1> QED
  BY <1>1, <1>2, <1>3

(* A value for 0, and one for each number from that of the one before.      *)
Steps(n, S) == [1 .. n -> [S -> S]]
Iterates(f, n, S, base, step) ==
  /\ f \in [0 .. n -> S]
  /\ f[0] = base
  /\ \A i \in 1 .. n : f[i] = step[i][f[i - 1]]

(* There is a function that begins with base and takes the steps.           *)
LEMMA Recursion ==
  ASSUME NEW n \in Nat, NEW S, NEW base \in S, NEW step \in Steps(n, S)
  PROVE  \E f : Iterates(f, n, S, base, step)
<1> USE DEF Steps
<1> DEFINE Good(k, f) == f[0] = base /\ \A i \in 1 .. k : f[i] = step[i][f[i - 1]]
           T == {k \in Nat : k <= n => \E f \in [0 .. k -> S] : Good(k, f)}
<1>1. 0 \in T
  <2>1. [i \in 0 .. 0 |-> base] \in [0 .. 0 -> S] /\ Good(0, [i \in 0 .. 0 |-> base])
    OBVIOUS
  <2> QED
    BY <2>1
<1>2. ASSUME NEW k \in Nat, k \in T PROVE k + 1 \in T
  <2> SUFFICES ASSUME k + 1 <= n PROVE \E f \in [0 .. k + 1 -> S] : Good(k + 1, f)
    OBVIOUS
  <2>1. PICK f \in [0 .. k -> S] : Good(k, f)
    BY <1>2
  <2> DEFINE g == [i \in 0 .. k + 1 |-> IF i = k + 1 THEN step[k + 1][f[k]] ELSE f[i]]
  <2>2. f[k] \in S /\ step[k + 1] \in [S -> S]
    OBVIOUS
  <2>3. g \in [0 .. k + 1 -> S]
    BY <2>2
  <2>4. Good(k + 1, g)
    BY <2>1
  <2> QED
    BY <2>3, <2>4
<1> HIDE DEF T
<1>3. n \in T
  BY <1>1, <1>2, Induction
<1> QED
  BY <1>3 DEF T, Iterates

-----------------------------------------------------------------------------
Best == [idx : Nat, featured : BOOLEAN, listed : BOOLEAN, date : Nat]

(* The best so far is always of the same kind.                              *)
LEMMA ConsiderType ==
  ASSUME NEW b \in Best, NEW i \in Nat, NEW v \in Versions
  PROVE  Consider(b, i, v) \in Best
  BY DEF Consider, Best, Versions

(* What the pass has found when it has seen the versions up to k.           *)
Fits(vs, only, k) == {i \in 1 .. k : Candidate(vs[i], only)}
BestOf(vs, only, k, b) ==
  IF Fits(vs, only, k) = {} THEN b.idx = 0
  ELSE /\ b.idx \in Fits(vs, only, k)
       /\ b.featured = vs[b.idx].featured /\ b.listed = vs[b.idx].listed
       /\ b.date = vs[b.idx].date
       /\ \A j \in Fits(vs, only, k) \ {b.idx} :
            ~Better(vs[j], vs[b.idx]) /\ (j < b.idx => Better(vs[b.idx], vs[j]))

(* What beats v beats all that do not beat v.                               *)
LEMMA BetterOrder ==
  ASSUME NEW u \in Versions, NEW v \in Versions, NEW w \in Versions,
         Better(w, v), ~Better(u, v)
  PROVE  Better(w, u) /\ ~Better(u, w)
  BY DEF Better, Versions

(* One more version considered: the best so far stays the best.             *)
LEMMA ConsiderKeeps ==
  ASSUME NEW vs \in Seq(Versions), NEW only \in BOOLEAN, NEW k \in 1 .. Len(vs),
         NEW b \in Best, BestOf(vs, only, k - 1, b)
  PROVE  BestOf(vs, only, k, IF Candidate(vs[k], only) THEN Consider(b, k, vs[k]) ELSE b)
<1>1. \A i \in 1 .. k : vs[i] \in Versions
  OBVIOUS
<1>2. CASE ~Candidate(vs[k], only)
  <2>1. Fits(vs, only, k) = Fits(vs, only, k - 1)
    BY <1>2 DEF Fits
  <2> QED
    BY <1>2, <2>1 DEF BestOf
<1>3. CASE Candidate(vs[k], only)
  <2>1. Fits(vs, only, k) = Fits(vs, only, k - 1) \cup {k} /\ k \notin Fits(vs, only, k - 1)
    BY <1>3 DEF Fits
  <2> DEFINE d == Consider(b, k, vs[k])
  <2>2. CASE Fits(vs, only, k - 1) = {}
    <3>1. /\ d.idx = k /\ d.featured = vs[k].featured /\ d.listed = vs[k].listed
          /\ d.date = vs[k].date
      BY <2>2 DEF BestOf, Consider
    <3> QED
      BY <1>3, <2>1, <2>2, <3>1 DEF BestOf
  <2>3. CASE Fits(vs, only, k - 1) # {}
    <3> DEFINE o == vs[b.idx]
               n == vs[k]
    <3>1. /\ b.idx \in Fits(vs, only, k - 1) /\ b.idx \in 1 .. k - 1
          /\ b.featured = o.featured /\ b.listed = o.listed /\ b.date = o.date
          /\ \A j \in Fits(vs, only, k - 1) \ {b.idx} :
               ~Better(vs[j], o) /\ (j < b.idx => Better(o, vs[j]))
      BY <2>3 DEF BestOf, Fits
    <3>2. o \in Versions /\ n \in Versions
      BY <1>1, <3>1
    <3>3. CASE Better(n, o)
      <4>1. /\ d.idx = k /\ d.featured = n.featured /\ d.listed = n.listed
            /\ d.date = n.date
        BY <3>1, <3>2, <3>3 DEF Consider, Better, Best, Versions
      <4>2. ASSUME NEW j \in Fits(vs, only, k - 1)
            PROVE  Better(n, vs[j]) /\ ~Better(vs[j], n)
        <5>1. vs[j] \in Versions
          BY <1>1 DEF Fits
        <5>2. ~Better(o, o)
          BY <3>2 DEF Better, Versions
        <5>2a. ~Better(vs[j], o)
          BY <3>1, <5>2
        <5> HIDE DEF o, n
        <5> QED
          BY <3>2, <3>3, <5>1, <5>2a, BetterOrder
      <4> QED
        BY <1>3, <2>1, <4>1, <4>2 DEF BestOf
    <3>4. CASE ~Better(n, o)
      <4>1. d = b
        BY <3>1, <3>2, <3>4 DEF Consider, Better, Best, Versions
      <4> QED
        BY <2>1, <3>1, <3>4, <4>1 DEF BestOf
    <3> QED
      BY <3>3, <3>4
  <2> QED
    BY <1>3, <2>2, <2>3
<1> QED
  BY <1>2, <1>3

(* The recursion of Chosen is the one of the lemma above.                   *)
LEMMA ChosenScans ==
  ASSUME NEW vs \in Seq(Versions), NEW only \in BOOLEAN
  PROVE  \E f \in [0 .. Len(vs) -> Best] :
           /\ f[0] = NoVersion /\ Chosen(vs, only) = f[Len(vs)]
           /\ \A i \in 1 .. Len(vs) :
                f[i] = IF Candidate(vs[i], only) THEN Consider(f[i - 1], i, vs[i]) ELSE f[i - 1]
<1> DEFINE Step(i, b) == IF Candidate(vs[i], only) THEN Consider(b, i, vs[i]) ELSE b
           step == [i \in 1 .. Len(vs) |-> [b \in Best |-> Step(i, b)]]
<1>1. NoVersion \in Best
  BY DEF NoVersion, Best
<1>2. \A i \in 1 .. Len(vs), b \in Best : Step(i, b) \in Best
  BY ConsiderType
<1>3. step \in [1 .. Len(vs) -> [Best -> Best]]
  BY <1>2
<1> HIDE DEF Step
<1>5. PICK f \in [0 .. Len(vs) -> Best] :
        f[0] = NoVersion /\ \A i \in 1 .. Len(vs) : f[i] = step[i][f[i - 1]]
  <2> HIDE DEF step
  <2>1. Len(vs) \in Nat /\ step \in Steps(Len(vs), Best)
    BY <1>3 DEF Steps
  <2>2. \E f : Iterates(f, Len(vs), Best, NoVersion, step)
    BY <1>1, <2>1, Recursion
  <2> QED
    BY <2>2 DEF Iterates
<1>6. \A i \in 1 .. Len(vs) : f[i - 1] \in Best /\ f[i] = Step(i, f[i - 1])
  BY <1>5
<1>7. f = [i \in 0 .. Len(vs) |->
             IF i = 0 THEN NoVersion
             ELSE IF Candidate(vs[i], only) THEN Consider(f[i - 1], i, vs[i]) ELSE f[i - 1]]
  BY <1>5, <1>6 DEF Step
<1>8. PICK g : /\ (g = [i \in 0 .. Len(vs) |->
                          IF i = 0 THEN NoVersion
                          ELSE IF Candidate(vs[i], only) THEN Consider(g[i - 1], i, vs[i])
                          ELSE g[i - 1]])
               /\ Chosen(vs, only) = g[Len(vs)]
  BY <1>7 DEF Chosen
<1> DEFINE T == {k \in Nat : k <= Len(vs) => g[k] = f[k]}
<1>9. \A k \in Nat : k \in T
  <2>1. 0 \in T
    BY <1>5, <1>8
  <2>2. ASSUME NEW k \in Nat, k \in T PROVE k + 1 \in T
    <3> SUFFICES ASSUME k + 1 <= Len(vs) PROVE g[k + 1] = f[k + 1]
      OBVIOUS
    <3>1. g[k] = f[k] /\ k + 1 \in 1 .. Len(vs) /\ (k + 1) - 1 = k
      BY <2>2
    <3>2. g[k + 1] = Step(k + 1, g[k])
      BY <1>8, <3>1 DEF Step
    <3> QED
      BY <1>6, <3>1, <3>2
  <2> HIDE DEF T
  <2> QED
    BY <2>1, <2>2, Induction
<1>10. g[Len(vs)] = f[Len(vs)]
  BY <1>9
<1> QED
  BY <1>5, <1>6, <1>8, <1>10 DEF Step

(* What the pass has at its end is the best of the list.                    *)
LEMMA ChosenIsBest ==
  ASSUME NEW vs \in Seq(Versions), NEW only \in BOOLEAN
  PROVE  Chosen(vs, only) \in Best /\ BestOf(vs, only, Len(vs), Chosen(vs, only))
<1>1. PICK f \in [0 .. Len(vs) -> Best] :
           /\ f[0] = NoVersion /\ Chosen(vs, only) = f[Len(vs)]
           /\ \A i \in 1 .. Len(vs) :
                f[i] = IF Candidate(vs[i], only) THEN Consider(f[i - 1], i, vs[i]) ELSE f[i - 1]
  BY ChosenScans
<1> DEFINE T == {k \in Nat : k <= Len(vs) => BestOf(vs, only, k, f[k])}
<1>2. 0 \in T
  BY <1>1 DEF BestOf, Fits, NoVersion
<1>3. ASSUME NEW k \in Nat, k \in T PROVE k + 1 \in T
  <2> SUFFICES ASSUME k + 1 <= Len(vs) PROVE BestOf(vs, only, k + 1, f[k + 1])
    OBVIOUS
  <2>1. k + 1 \in 1 .. Len(vs) /\ (k + 1) - 1 = k /\ f[k] \in Best
    OBVIOUS
  <2>2. BestOf(vs, only, k, f[k])
    BY <1>3
  <2> QED
    BY <1>1, <2>1, <2>2, ConsiderKeeps
<1> HIDE DEF T
<1>4. Len(vs) \in T
  BY <1>2, <1>3, Induction
<1> QED
  BY <1>1, <1>4 DEF T

-----------------------------------------------------------------------------
(* The order of the parts of a package.                                     *)

(* The parts of a package in the order in which the page's builder makes    *)
(* them: so of a list half full the last element is never among those made. *)
PartNames == {"package", "sections", "loaders", "file", "digests", "sha512", "sha1",
              "depends", "dep1", "dep2", "dep3", "origin"}

Rank(p) ==
  CASE p = "package" -> 1 [] p = "sections" -> 2 [] p = "loaders" -> 3 [] p = "file" -> 4
    [] p = "digests" -> 5 [] p = "sha512" -> 6 [] p = "sha1" -> 7 [] p = "depends" -> 8
    [] p = "dep1" -> 9 [] p = "dep2" -> 10 [] p = "dep3" -> 11 [] p = "origin" -> 12

Ascends(s, lo, hi) ==
  /\ s \in Seq(PartNames)
  /\ \A i \in 1 .. Len(s) : Rank(s[i]) \in lo .. hi
  /\ \A i, j \in 1 .. Len(s) : i < j => Rank(s[i]) < Rank(s[j])

(* One run of parts after another.                                          *)
LEMMA AscendsOn ==
  ASSUME NEW a \in Nat, NEW m \in Nat, NEW n \in Nat, NEW b \in Nat, a <= m, m < n, n <= b,
         NEW s, Ascends(s, a, m), NEW u, Ascends(u, n, b)
  PROVE  Ascends(s \o u, a, b)
<1>1. s \in Seq(PartNames) /\ u \in Seq(PartNames)
  BY DEF Ascends
<1>2. /\ s \o u \in Seq(PartNames) /\ Len(s \o u) = Len(s) + Len(u)
      /\ \A i \in 1 .. Len(s) + Len(u) :
           (s \o u)[i] = IF i <= Len(s) THEN s[i] ELSE u[i - Len(s)]
  BY <1>1, ConcatProperties
<1> DEFINE v == s \o u
<1>3. Len(s) \in Nat /\ Len(u) \in Nat /\ Len(v) = Len(s) + Len(u)
  BY <1>1, <1>2
<1>4. ASSUME NEW i \in 1 .. Len(v)
      PROVE  IF i <= Len(s) THEN i \in 1 .. Len(s) /\ v[i] = s[i]
             ELSE i - Len(s) \in 1 .. Len(u) /\ v[i] = u[i - Len(s)]
  BY <1>2, <1>3
<1> HIDE DEF v
<1>5. \A i \in 1 .. Len(s) : Rank(s[i]) \in a .. m
  BY DEF Ascends
<1>6. \A i \in 1 .. Len(u) : Rank(u[i]) \in n .. b
  BY DEF Ascends
<1>7. ASSUME NEW i \in 1 .. Len(v) PROVE Rank(v[i]) \in a .. b
  <2>1. CASE i <= Len(s)
    <3>1. Rank(v[i]) \in a .. m
      BY <1>4, <1>5, <2>1
    <3> QED
      BY <3>1
  <2>2. CASE ~(i <= Len(s))
    <3>1. Rank(v[i]) \in n .. b
      BY <1>4, <1>6, <2>2
    <3> QED
      BY <3>1
  <2> QED
    BY <2>1, <2>2
<1>8. ASSUME NEW i \in 1 .. Len(v), NEW j \in 1 .. Len(v), i < j
      PROVE  Rank(v[i]) < Rank(v[j])
  <2>1. CASE j <= Len(s)
    <3>1. i <= Len(s)
      BY <1>3, <1>8, <2>1
    <3> QED
      BY <1>4, <1>8, <2>1, <3>1 DEF Ascends
  <2>2. CASE ~(j <= Len(s)) /\ i <= Len(s)
    <3>1. Rank(v[i]) \in a .. m /\ Rank(v[j]) \in n .. b
      BY <1>4, <1>5, <1>6, <2>2
    <3> QED
      BY <3>1
  <2>3. CASE ~(i <= Len(s))
    <3>1. ~(j <= Len(s)) /\ i - Len(s) < j - Len(s)
      BY <1>3, <1>8, <2>3
    <3> QED
      BY <1>4, <2>3, <3>1 DEF Ascends
  <2> QED
    BY <2>1, <2>2, <2>3
<1> QED
  BY <1>2, <1>7, <1>8 DEF Ascends, v

(* A single part.                                                           *)
LEMMA Tuple1 ==
  ASSUME NEW p \in PartNames, NEW a \in Nat, NEW b \in Nat, Rank(p) \in a .. b
  PROVE  Ascends(<<p>>, a, b)
<1>1. <<p>> \in Seq(PartNames) /\ Len(<<p>>) = 1 /\ <<p>>[1] = p
  OBVIOUS
<1>2. \A i \in 1 .. Len(<<p>>) : i = 1
  BY <1>1
<1> QED
  BY <1>1, <1>2 DEF Ascends

(* No part at all.                                                          *)
LEMMA NoParts == \A a, b \in Nat : Ascends(<<>>, a, b)
  BY DEF Ascends

(* Where each part comes.                                                   *)
LEMMA PartsRanked ==
  /\ \A p \in PartNames : Rank(p) \in 1 .. 12
  /\ Rank("package") = 1 /\ Rank("sections") = 2 /\ Rank("loaders") = 3 /\ Rank("file") = 4
  /\ Rank("digests") = 5 /\ Rank("sha512") = 6 /\ Rank("sha1") = 7 /\ Rank("depends") = 8
  /\ Rank("dep1") = 9 /\ Rank("dep2") = 10 /\ Rank("dep3") = 11 /\ Rank("origin") = 12
  BY DEF Rank, PartNames

(* The digests of a file, in their order.                                   *)
LEMMA DigestsAscend ==
  ASSUME NEW v \in Versions
  PROVE  Ascends(Digests(v), 6, 7) /\ Digests(v) \in Seq({"sha512", "sha1"})
<1> DEFINE all == <<"sha512", "sha1">>
<1>1. v.hashes \in 0 .. 2
  BY DEF Versions
<1>2. all \in Seq({"sha512", "sha1"}) /\ Len(all) = 2 /\ all[1] = "sha512" /\ all[2] = "sha1"
  OBVIOUS
<1>3. /\ Digests(v) \in Seq({"sha512", "sha1"}) /\ Len(Digests(v)) = v.hashes
      /\ \A i \in 1 .. v.hashes : Digests(v)[i] = all[i]
  BY <1>1, <1>2, SubSeqProperties DEF Digests
<1>4. Rank(all[1]) = 6 /\ Rank(all[2]) = 7
  BY <1>2, PartsRanked
<1>5. {"sha512", "sha1"} \subseteq PartNames
  BY DEF PartNames
<1>6. Digests(v) \in Seq(PartNames)
  BY <1>3, <1>5
<1> QED
  BY <1>1, <1>3, <1>4, <1>6 DEF Ascends

(* The dependencies, in their order.                                        *)
LEMMA DepsAscend ==
  ASSUME NEW v \in Versions
  PROVE  Ascends(Deps(v), 9, 11) /\ Deps(v) \in Seq({"dep1", "dep2", "dep3"})
<1> DEFINE all == <<"dep1", "dep2", "dep3">>
<1>1. v.deps \in 0 .. 3
  BY DEF Versions
<1>2. /\ all \in Seq({"dep1", "dep2", "dep3"}) /\ Len(all) = 3
      /\ all[1] = "dep1" /\ all[2] = "dep2" /\ all[3] = "dep3"
  OBVIOUS
<1>3. /\ Deps(v) \in Seq({"dep1", "dep2", "dep3"}) /\ Len(Deps(v)) = v.deps
      /\ \A i \in 1 .. v.deps : Deps(v)[i] = all[i]
  BY <1>1, <1>2, SubSeqProperties DEF Deps
<1>4. Rank(all[1]) = 9 /\ Rank(all[2]) = 10 /\ Rank(all[3]) = 11
  BY <1>2, PartsRanked
<1>5. {"dep1", "dep2", "dep3"} \subseteq PartNames
  BY DEF PartNames
<1>6. Deps(v) \in Seq(PartNames)
  BY <1>3, <1>5
<1> QED
  BY <1>1, <1>3, <1>4, <1>6 DEF Ascends

(* The loaders and the file.                                                *)
LEMMA LoadersAscend == Ascends(<<"loaders", "file">>, 3, 4)
<1> DEFINE s == <<"loaders", "file">>
<1>1. s \in Seq(PartNames) /\ Len(s) = 2 /\ s[1] = "loaders" /\ s[2] = "file"
  BY DEF PartNames
<1> HIDE DEF s
<1>2. \A i \in 1 .. Len(s) : i = 1 \/ i = 2
  BY <1>1
<1>3. Rank(s[1]) = 3 /\ Rank(s[2]) = 4
  BY <1>1, PartsRanked
<1>4. \A i \in 1 .. Len(s) : Rank(s[i]) \in 3 .. 4
  BY <1>2, <1>3
<1>5. ASSUME NEW i \in 1 .. Len(s), NEW j \in 1 .. Len(s), i < j
      PROVE  Rank(s[i]) < Rank(s[j])
  <2>1. i = 1 /\ j = 2
    BY <1>1, <1>5
  <2> QED
    BY <1>3, <2>1
<1>6. Ascends(s, 3, 4)
  BY <1>1, <1>4, <1>5 DEF Ascends
<1> QED
  BY <1>6 DEF s

(* The page builder makes its parts in order, each at most once.            *)
LEMMA PagePartsAscend ==
  ASSUME NEW hit \in Hits, NEW v \in Versions
  PROVE  Ascends(PageParts(hit, v), 1, 12)
<1> DEFINE p1 == <<"package">>
           p2 == p1 \o When(hit.cats, "sections")
           p3 == p2 \o <<"loaders", "file">>
           p4 == p3 \o When(v.hashes > 0, "digests")
           p5 == p4 \o Digests(v)
           p6 == p5 \o <<"depends">>
           p7 == p6 \o Deps(v)
           p8 == p7 \o <<"origin">>
<1>0. PageParts(hit, v) = p8
  BY DEF PageParts
<1> USE PartsRanked
<1>1. Ascends(p1, 1, 1)
  BY Tuple1 DEF PartNames
<1>a. Ascends(When(hit.cats, "sections"), 2, 2)
  <2>1. "sections" \in PartNames
    BY DEF PartNames
  <2> QED
    BY <2>1, Tuple1, NoParts DEF When
<1>2. Ascends(p2, 1, 2)
  <2> HIDE DEF p1
  <2> QED
    BY <1>1, <1>a, AscendsOn
<1>b. Ascends(<<"loaders", "file">>, 3, 4)
  BY LoadersAscend
<1>3. Ascends(p3, 1, 4)
  <2> HIDE DEF p2
  <2> QED
    BY <1>2, <1>b, AscendsOn
<1>c. Ascends(When(v.hashes > 0, "digests"), 5, 5)
  <2>1. "digests" \in PartNames
    BY DEF PartNames
  <2> QED
    BY <2>1, Tuple1, NoParts DEF When
<1>4. Ascends(p4, 1, 5)
  <2> HIDE DEF p3
  <2> QED
    BY <1>3, <1>c, AscendsOn
<1>5. Ascends(p5, 1, 7)
  <2> HIDE DEF p4
  <2> QED
    BY <1>4, DigestsAscend, AscendsOn
<1>d. Ascends(<<"depends">>, 8, 8)
  BY Tuple1 DEF PartNames
<1>6. Ascends(p6, 1, 8)
  <2> HIDE DEF p5
  <2> QED
    BY <1>5, <1>d, AscendsOn
<1>7. Ascends(p7, 1, 11)
  <2> HIDE DEF p6
  <2> QED
    BY <1>6, DepsAscend, AscendsOn
<1>e. Ascends(<<"origin">>, 12, 12)
  BY Tuple1 DEF PartNames
<1>8. Ascends(p8, 1, 12)
  <2> HIDE DEF p7
  <2> QED
    BY <1>7, <1>e, AscendsOn
<1> QED
  BY <1>0, <1>8

(* The other builder makes nothing but parts and a copy of the text.        *)
LEMMA JsonPartsNamed ==
  ASSUME NEW hit, NEW v \in Versions
  PROVE  JsonParts(hit, v) \in Seq(PartNames \cup {"text"})
<1> DEFINE S == PartNames \cup {"text"}
<1>1. /\ <<"text", "package", "loaders", "origin">> \in Seq(S)
      /\ <<"file", "digests">> \in Seq(S) /\ <<"depends">> \in Seq(S)
  BY DEF PartNames
<1>1a. When(hit.cats, "sections") \in Seq(S)
  <2>1. <<>> \in Seq(S) /\ <<"sections">> \in Seq(S)
    BY DEF PartNames
  <2> QED
    BY <2>1 DEF When
<1>2. Digests(v) \in Seq(S) /\ Deps(v) \in Seq(S)
  BY DigestsAscend, DepsAscend DEF Ascends
<1> HIDE DEF S
<1>3. \A s, u \in Seq(S) : s \o u \in Seq(S)
  BY ConcatProperties
<1>4. JsonParts(hit, v) \in Seq(S)
  BY <1>1, <1>1a, <1>2, <1>3 DEF JsonParts
<1> QED
  BY <1>4 DEF S

-----------------------------------------------------------------------------
(* What every call holds at every moment, and which hits it has dealt with. *)

(* What is in the packages, and what the lists dropped half full may leave.  *)
Kept(c) == UNION {Of(p.hit, p.parts) : p \in Range(c.pkgs)}
Half(r, c) ==
  IF r = "page" THEN {<<p, h>> : p \in {"sha512", "dep1", "dep2"}, h \in c.missed} ELSE {}
(* What the call works with: the answer of the search, of the request, of    *)
(* the hit it builds a package of.                                          *)
Base(r, c) ==
  IF r = "page" THEN {<<"tree", 0>>, <<"list", 0>>, <<"body", 0>>} ELSE HitList(c.hits)
Asking(s, of) ==
  CASE s = "open" -> {<<k, of>> : k \in {"query", "url", "handle", "headers", "body"}}
    [] s = "ok" -> {<<"body", of>>}
    [] OTHER -> {}
Working(r, c, s) ==
  CASE c.st = "search" -> Asking(s, 0)
    [] c.st = "hits" -> Base(r, c)
    [] c.st = "versions" -> Base(r, c) \cup Asking(s, c.h)
    [] c.st = "build" -> Base(r, c) \cup {<<"tree", c.h>>, <<"body", c.h>>}
    [] c.st = "done" -> IF r = "page" /\ c.ret = "ok" THEN {<<"list", 0>>} ELSE {}
    [] OTHER -> {}

(* A page has its list from the search on, and hands it to the caller.      *)
Paging(r, c) == r = "page" /\ (c.st \in {"hits", "versions", "build"} \/ c.ret = "ok")
Owns(r, c, s, H) ==
  /\ Kept(c) \subseteq H
  /\ H \subseteq Kept(c) \cup Half(r, c) \cup Working(r, c, s)
  /\ Paging(r, c) => <<"list", 0>> \in H

(* The fields of a call, and how far it has come.                           *)
Packages == [hit : Nat, parts : SUBSET PartNames]
IsCall(c) ==
  /\ c = [st |-> c.st, hits |-> c.hits, h |-> c.h, ver |-> c.ver, pkgs |-> c.pkgs,
          missed |-> c.missed, ret |-> c.ret, from |-> c.from, only |-> c.only,
          best |-> c.best]
  /\ c.hits \in Seq(Hits) /\ c.h \in 0 .. Len(c.hits)
  /\ c.pkgs \in Seq(Packages)
  /\ c.st = "build" => c.ver \in Versions

Place(r, c, s, of) ==
  /\ c.st \in {"start", "search", "hits", "versions", "build", "done"}
  /\ c.st = "search" =>
       s \in {"open", "ok", "failed"} /\ of = 0 /\ r \in {"page", "json", "raw"}
  /\ c.st = "versions" => s \in {"open", "ok", "failed"} /\ of = c.h
  /\ c.st \notin {"search", "versions"} => s = "none"
  /\ c.st # "done" => c.ret = "none"
  /\ c.st \in {"versions", "build"} => c.h \in Numbered(c.hits)
  /\ c.ret = "ok" => c.h = Len(c.hits)
  /\ c.st \in {"hits", "versions", "build"} => r \in {"page", "json"}
  /\ c.st \in {"start", "search"} =>
       c.hits = <<>> /\ c.h = 0 /\ c.pkgs = <<>> /\ c.missed = {}

(* The hits that are dealt with. *)
Over(c) == IF c.st \in {"versions", "build"} THEN 1 .. c.h - 1 ELSE 1 .. c.h
Kepts(c) == {c.pkgs[i].hit : i \in 1 .. Len(c.pkgs)}
Follows(c) ==
  /\ \A i, j \in 1 .. Len(c.pkgs) : i < j => c.pkgs[i].hit < c.pkgs[j].hit
  /\ Kepts(c) = (Numbered(c.hits) \cap Over(c)) \ c.missed
  /\ c.missed \subseteq Over(c)

CallInv(r, c, s, of, H) == IsCall(c) /\ Place(r, c, s, of) /\ Follows(c) /\ Owns(r, c, s, H)

PageInv ==
  /\ DOMAIN call = Threads /\ DOMAIN heap = Threads
  /\ \A t \in Threads : CallInv(route[t], call[t], req[t].st, req[t].of, heap[t])

-----------------------------------------------------------------------------
(* What a call keeps are parts; what it works with are not.                 *)
LEMMA KeptNamed ==
  ASSUME NEW c, IsCall(c), NEW r, NEW x \in Kept(c) \cup Half(r, c)
  PROVE  x[1] \in PartNames
<1>1. CASE x \in Kept(c)
  <2>1. PICK p \in Range(c.pkgs) : x \in Of(p.hit, p.parts)
    BY <1>1 DEF Kept
  <2>2. p \in Packages
    BY <2>1 DEF IsCall, Range
  <2> QED
    BY <2>1, <2>2 DEF Of, Packages
<1>2. CASE x \in Half(r, c)
  BY <1>2 DEF Half, PartNames
<1> QED
  BY <1>1, <1>2

(* A step adds A, of which K for good, and frees R.                         *)
Moves(r, c, s, H, d, q, G, A, R, K) ==
  /\ G \subseteq H \cup A /\ H \ R \subseteq G
  /\ \A x \in R : x[1] \notin PartNames /\ x[1] # "list"
  /\ Kept(d) = Kept(c) \cup K /\ K \subseteq G
  /\ c.missed \subseteq d.missed
  /\ Paging(r, d) => Paging(r, c) \/ <<"list", 0>> \in G
  /\ \A x \in G : x \in Working(r, c, s) \cup A =>
                     x \in Kept(d) \cup Half(r, d) \cup Working(r, d, q)

(* Such a step keeps the account of what the call holds.                    *)
LEMMA HeapStep ==
  ASSUME NEW r, NEW c, IsCall(c), NEW s, NEW H, Owns(r, c, s, H),
         NEW d, NEW q, NEW G, NEW A, NEW R, NEW K, Moves(r, c, s, H, d, q, G, A, R, K)
  PROVE  Owns(r, d, q, G)
<1> USE DEF Moves
<1>1. Kept(d) \subseteq G
  BY KeptNamed DEF Owns
<1>2. Half(r, c) \subseteq Half(r, d)
  BY DEF Half
<1>3. G \subseteq Kept(d) \cup Half(r, d) \cup Working(r, d, q)
  BY <1>2 DEF Owns
<1>4. Paging(r, d) => <<"list", 0>> \in G
  <2>1. <<"list", 0>>[1] = "list"
    OBVIOUS
  <2> QED
    BY <2>1 DEF Owns
<1> QED
  BY <1>1, <1>3, <1>4 DEF Owns

-----------------------------------------------------------------------------
(* The client's steps. *)

(* A request is open only in a search or a question for versions.           *)
LEMMA AskingWhen ==
  ASSUME NEW r, NEW c, NEW s, NEW of, NEW H, CallInv(r, c, s, of, H), s = "open"
  PROVE  /\ c.st \in {"search", "versions"}
         /\ \A q, x : x \in Working(r, c, q) <=>
                        x \in Asking(q, of) \/ (c.st = "versions" /\ x \in Base(r, c))
  BY DEF CallInv, Place, Working

(* What a call works with, by kind.                                         *)
LEMMA BaseKinds ==
  ASSUME NEW r, NEW c, NEW x \in Base(r, c)
  PROVE  x[1] \in {"tree", "list", "body", "hits", "hit", "categories"}
  BY DEF Base, HitList

(* A transfer ends: what it was set up with is freed, and the body if it    *)
(* failed.                                                                  *)
LEMMA AnswerGone ==
  ASSUME NEW r, NEW c, NEW of, NEW H, CallInv(r, c, "open", of, H),
         NEW q, NEW G, q \in {"ok", "failed"},
         G = IF q = "ok" THEN H \ {k \in H : k[1] \in {"query", "url", "handle", "headers"}}
             ELSE (H \ {k \in H : k[1] \in {"query", "url", "handle", "headers"}})
                    \ {<<"body", of>>}
  PROVE  CallInv(r, c, q, of, G)
<1> DEFINE N == {k \in H : k[1] \in {"query", "url", "handle", "headers"}}
           R == N \cup {<<"body", of>>}
<1>1. G \subseteq H /\ H \ R \subseteq G
  OBVIOUS
<1>2. \A x \in R : x[1] \notin PartNames /\ x[1] # "list"
  BY DEF PartNames
<1>3. ASSUME NEW x \in G, x \in Working(r, c, "open") PROVE x \in Working(r, c, q)
  <2>1. x[1] \notin {"query", "url", "handle", "headers"} /\ (q = "failed" => x # <<"body", of>>)
    OBVIOUS
  <2>2. CASE x \in Asking("open", of)
    <3>1. x = <<"body", of>>
      BY <2>1, <2>2 DEF Asking
    <3>2. x \in Asking(q, of)
      BY <2>1, <3>1 DEF Asking
    <3> QED
      BY <3>2, AskingWhen
  <2>3. CASE x \in Base(r, c) /\ c.st = "versions"
    BY <2>3, AskingWhen
  <2> QED
    BY <1>3, <2>2, <2>3, AskingWhen
<1>4. Owns(r, c, q, G)
  <2>1. IsCall(c) /\ Owns(r, c, "open", H)
    BY DEF CallInv
  <2> HIDE DEF R
  <2>2. Moves(r, c, "open", H, c, q, G, {}, R, {})
    BY <1>1, <1>2, <1>3 DEF Moves
  <2> QED
    BY <2>1, <2>2, HeapStep
<1>5. Place(r, c, q, of)
  BY DEF CallInv, Place
<1> QED
  BY <1>4, <1>5 DEF CallInv

(* A piece of the body comes.                                               *)
LEMMA AnswerGrows ==
  ASSUME NEW r, NEW c, NEW of, NEW H, CallInv(r, c, "open", of, H)
  PROVE  CallInv(r, c, "open", of, H \cup {<<"body", of>>})
<1>1. <<"body", of>> \in Working(r, c, "open")
  BY AskingWhen DEF Asking
<1> QED
  BY <1>1 DEF CallInv, Owns

-----------------------------------------------------------------------------
(* A call asks. *)
LEMMA SetUpAsks ==
  ASSUME NEW of
  PROVE  Range(SetUp(of)) \subseteq Asking("open", of)
<1> DEFINE three == <<<<"query", of>>, <<"url", of>>, <<"handle", of>>>>
           S == Asking("open", of)
<1>1. three \in Seq(S) /\ <<<<"headers", of>>>> \in Seq(S) /\ <<>> \in Seq(S)
  BY DEF Asking
<1>2. SetUp(of) = three \o (IF headers > 0 THEN <<<<"headers", of>>>> ELSE <<>>)
  BY DEF SetUp
<1> HIDE DEF three, S
<1>3. SetUp(of) \in Seq(S)
  <2>1. CASE headers > 0
    BY <1>1, <1>2, <2>1, ConcatProperties
  <2>2. CASE ~(headers > 0)
    BY <1>1, <1>2, <2>2, ConcatProperties
  <2> QED
    BY <2>1, <2>2
<1> QED
  BY <1>3, LenProperties DEF Range, S

(* What a request that is made anew does to its thread. *)
Requested(q, of, H, G) ==
  \/ q = "open" /\ H \subseteq G /\ G \subseteq H \cup Asking("open", of)
  \/ /\ q = "failed" /\ G \subseteq H
     /\ H \ Asking("open", of) \subseteq G
     /\ \A x \in H \ G : x[1] # "body"

(* A request that is opened holds what it was set up with; a refused one,   *)
(* nothing.                                                                 *)
LEMMA RequestMakes ==
  ASSUME IInv, DOMAIN heap = Threads, NEW t \in Threads, NEW of, Request(t, of)
  PROVE  /\ req[t].st = "none"
         /\ Requested(req'[t].st, of, heap[t], heap'[t]) /\ req'[t].of = of
         /\ \A u \in Threads \ {t} : req'[u] = req[u] /\ heap'[u] = heap[u]
         /\ DOMAIN heap' = Threads
<1>1. DOMAIN req = Threads
  BY DEF IInv, TypeOK
<1>2. CASE RequestOpens(t, of)
  BY <1>1, <1>2, SetUpAsks DEF RequestOpens, Request, Requested
<1>3. CASE RequestRefused(t, of)
  <2>1. PICK k \in DOMAIN SetUp(of) :
          heap' = [heap EXCEPT ![t] =
                    (@ \cup {SetUp(of)[i] : i \in 1..(k - 1)}) \ UndoSetUp(of, k)]
    BY <1>3 DEF RequestRefused
  <2> DEFINE X == {SetUp(of)[i] : i \in 1..(k - 1)}
  <2>2. heap'[t] = (heap[t] \cup X) \ X
    BY <2>1 DEF UndoSetUp
  <2>3. X \subseteq {<<p, of>> : p \in {"query", "url", "handle", "headers"}}
    <3> DEFINE S == {<<p, of>> : p \in {"query", "url", "handle", "headers"}}
               three == <<<<"query", of>>, <<"url", of>>, <<"handle", of>>>>
    <3>1. three \in Seq(S) /\ <<<<"headers", of>>>> \in Seq(S) /\ <<>> \in Seq(S)
      OBVIOUS
    <3>2. SetUp(of) = three \o (IF headers > 0 THEN <<<<"headers", of>>>> ELSE <<>>)
      BY DEF SetUp
    <3> HIDE DEF S, three
    <3>3. SetUp(of) \in Seq(S)
      <4>1. CASE headers > 0
        BY <3>1, <3>2, <4>1, ConcatProperties
      <4>2. CASE ~(headers > 0)
        BY <3>1, <3>2, <4>2, ConcatProperties
      <4> QED
        BY <4>1, <4>2
    <3>4. DOMAIN SetUp(of) = 1 .. Len(SetUp(of)) /\ Len(SetUp(of)) \in Nat
      BY <3>3, LenProperties
    <3>5. \A i \in 1 .. k - 1 : i \in 1 .. Len(SetUp(of))
      BY <3>4
    <3> QED
      BY <3>3, <3>5, LenProperties DEF S
  <2>4. \A x \in X : x \in Asking("open", of) /\ x[1] # "body"
    BY <2>3 DEF Asking
  <2> HIDE DEF X
  <2>5. Requested("failed", of, heap[t], heap'[t])
    BY <2>2, <2>4 DEF Requested
  <2>6. req'[t] = [NoRequest EXCEPT !.st = "failed", !.of = of]
    BY <1>1, <1>3 DEF RequestRefused
  <2>7. req'[t].st = "failed" /\ req'[t].of = of
    BY <2>6 DEF NoRequest
  <2> QED
    BY <1>1, <1>3, <2>1, <2>5, <2>7 DEF RequestRefused, Request
<1> QED
  BY <1>2, <1>3 DEF Request

(* Packages kept are a matter of the list of packages only.                 *)
LEMMA SameKept ==
  ASSUME NEW c, NEW d, d.pkgs = c.pkgs
  PROVE  Kept(d) = Kept(c) /\ Kepts(d) = Kepts(c)
  BY DEF Kept, Kepts

(* The search is asked for.                                                 *)
LEMMA SearchKeeps ==
  ASSUME NEW r, NEW c, NEW s, NEW of, NEW H, CallInv(r, c, s, of, H), c.st = "start",
         r \in {"page", "json", "raw"}, NEW d, d = [c EXCEPT !.st = "search"],
         NEW q, NEW G, Requested(q, 0, H, G)
  PROVE  CallInv(r, d, q, 0, G)
<1>1. IsCall(c) /\ Place(r, c, s, of) /\ Follows(c) /\ Owns(r, c, s, H)
  BY DEF CallInv
<1>2. /\ d.st = "search" /\ d.hits = c.hits /\ d.h = c.h /\ d.pkgs = c.pkgs
      /\ d.missed = c.missed /\ d.ret = c.ret /\ IsCall(d)
  BY <1>1 DEF IsCall
<1>3. Place(r, d, q, 0) /\ Follows(d)
  BY <1>1, <1>2, SameKept DEF Place, Follows, Over, Requested
<1>4. Owns(r, d, q, G)
  <2> DEFINE R == H \cap {x \in Asking("open", 0) : x[1] # "body"}
             A == IF q = "open" THEN Asking("open", 0) ELSE {}
  <2>1. Working(r, c, s) = {} /\ Working(r, d, q) = Asking(q, 0) /\ ~Paging(r, d)
    BY <1>1, <1>2 DEF Working, Paging, Place
  <2>2. \A x \in R : x[1] \notin PartNames /\ x[1] # "list"
    BY DEF Asking, PartNames
  <2>3. G \subseteq H \cup A /\ H \ R \subseteq G
    BY DEF Requested
  <2> HIDE DEF R, A
  <2>4. \A x \in A : x \in Asking(q, 0)
    BY DEF A
  <2>5. Moves(r, c, s, H, d, q, G, A, R, {})
    BY <1>2, <2>1, <2>2, <2>3, <2>4, SameKept DEF Moves
  <2> QED
    BY <1>1, <2>5, HeapStep
<1> QED
  BY <1>2, <1>3, <1>4 DEF CallInv

(* The n-th hit is the next, and it has an id.                              *)
AsksOf(c, d, n) ==
  /\ c.st = "hits" /\ c.h < Len(c.hits) /\ n = c.h + 1 /\ c.hits[n].id
  /\ d = [c EXCEPT !.st = "versions", !.h = n]

(* The versions of the next hit are asked for.                              *)
LEMMA AskVersionsKeeps ==
  ASSUME NEW r, NEW c, NEW s, NEW of, NEW H, CallInv(r, c, s, of, H),
         NEW d, NEW n, AsksOf(c, d, n), NEW q, NEW G, Requested(q, n, H, G)
  PROVE  CallInv(r, d, q, n, G)
<1> USE DEF AsksOf
<1>1. IsCall(c) /\ Place(r, c, s, of) /\ Follows(c) /\ Owns(r, c, s, H)
  BY DEF CallInv
<1>0. c.h + 1 \in 0 .. Len(c.hits)
  BY <1>1 DEF IsCall
<1>2. /\ d.st = "versions" /\ d.hits = c.hits /\ d.h = c.h + 1 /\ d.pkgs = c.pkgs
      /\ d.missed = c.missed /\ d.ret = c.ret /\ IsCall(d)
  <2>1. n \in 0 .. Len(c.hits) /\ d = [c EXCEPT !.st = "versions", !.h = n]
    BY <1>0
  <2>2. /\ d.st = "versions" /\ d.hits = c.hits /\ d.h = n /\ d.pkgs = c.pkgs
        /\ d.missed = c.missed /\ d.ret = c.ret /\ IsCall(d)
    BY <1>1, <2>1 DEF IsCall
  <2> QED
    BY <2>2
<1>3. c.h + 1 \in Numbered(c.hits) /\ c.h \in Nat
  BY <1>1 DEF IsCall, Numbered
<1>4. Place(r, d, q, n)
  BY <1>1, <1>2, <1>3 DEF Place, Requested
<1>5. Follows(d)
  <2>1. Over(d) = 1 .. c.h /\ Over(c) = 1 .. c.h
    BY <1>2, <1>3 DEF Over
  <2> QED
    BY <1>1, <1>2, <2>1, SameKept DEF Follows
<1>6. Owns(r, d, q, G)
  <2> DEFINE R == H \cap {x \in Asking("open", n) : x[1] # "body"}
             A == IF q = "open" THEN Asking("open", n) ELSE {}
  <2>1. Working(r, c, s) = Base(r, c) /\ Working(r, d, q) = Base(r, c) \cup Asking(q, n)
    BY <1>1, <1>2 DEF Working, Place, Base
  <2>2. \A x \in R : x[1] \notin PartNames /\ x[1] # "list"
    BY DEF Asking, PartNames
  <2>3. G \subseteq H \cup A /\ H \ R \subseteq G
    BY DEF Requested
  <2>4. Paging(r, d) => Paging(r, c)
    BY <1>1, <1>2 DEF Paging, Place
  <2> HIDE DEF R, A
  <2>5. \A x \in A : x \in Asking(q, n)
    BY DEF A
  <2>6. Moves(r, c, s, H, d, q, G, A, R, {})
    BY <1>2, <2>1, <2>2, <2>3, <2>4, <2>5, SameKept DEF Moves
  <2> QED
    BY <1>1, <2>6, HeapStep
<1> QED
  BY <1>2, <1>4, <1>5, <1>6 DEF CallInv

-----------------------------------------------------------------------------
(* A step without a request that adds A and frees R, where nothing stays    *)
(* but what is a part or at work.                                           *)
LEMMA SearchOver ==
  ASSUME NEW r, NEW c, NEW s, NEW of, NEW H, CallInv(r, c, s, of, H), c.st = "search",
         s \in {"ok", "failed"},
         NEW d, d = [c EXCEPT !.st = "done", !.ret = "failed"],
         NEW G, G = H \ {<<"body", of>>}
  PROVE  CallInv(r, d, "none", 0, G)
<1>1. IsCall(c) /\ Place(r, c, s, of) /\ Follows(c) /\ Owns(r, c, s, H)
  BY DEF CallInv
<1>2. /\ d.st = "done" /\ d.hits = c.hits /\ d.h = c.h /\ d.pkgs = c.pkgs
      /\ d.missed = c.missed /\ d.ret = "failed" /\ IsCall(d)
  BY <1>1 DEF IsCall
<1>3. Place(r, d, "none", 0) /\ Follows(d)
  BY <1>1, <1>2, SameKept DEF Place, Follows, Over
<1>4. Owns(r, d, "none", G)
  <2>1. Working(r, c, s) = Asking(s, of) /\ Working(r, d, "none") = {} /\ ~Paging(r, d)
    BY <1>1, <1>2 DEF Working, Paging, Place
  <2>2. \A x \in Asking(s, of) : x = <<"body", of>>
    BY DEF Asking
  <2>3. \A x \in {<<"body", of>>} : x[1] \notin PartNames /\ x[1] # "list"
    BY DEF PartNames
  <2>4. Moves(r, c, s, H, d, "none", G, {}, {<<"body", of>>}, {})
    BY <1>2, <2>1, <2>2, <2>3, SameKept DEF Moves
  <2> QED
    BY <1>1, <2>4, HeapStep
<1> QED
  BY <1>2, <1>3, <1>4 DEF CallInv

(* What the list of hits is made of.                                        *)
LEMMA HitListKinds ==
  ASSUME NEW hits, NEW x \in HitList(hits)
  PROVE  x[1] \notin PartNames /\ x[1] # "list"
  BY DEF HitList, PartNames

(* The search gives hits.                                                   *)
LEMMA SearchFinds ==
  ASSUME NEW r, NEW c, NEW s, NEW of, NEW H, CallInv(r, c, s, of, H), c.st = "search",
         s = "ok", r \in {"page", "json"}, NEW hits \in Seq(Hits),
         NEW d, d = [c EXCEPT !.st = "hits", !.hits = hits],
         NEW G, G = IF r = "page" THEN H \cup {<<"tree", 0>>, <<"list", 0>>}
                    ELSE (H \ {<<"body", of>>}) \cup HitList(hits)
  PROVE  CallInv(r, d, "none", 0, G)
<1>1. IsCall(c) /\ Place(r, c, s, of) /\ Follows(c) /\ Owns(r, c, s, H)
  BY DEF CallInv
<1>2. /\ d.st = "hits" /\ d.hits = hits /\ d.h = c.h /\ d.pkgs = c.pkgs
      /\ d.missed = c.missed /\ d.ret = c.ret
      /\ c.h = 0 /\ c.pkgs = <<>> /\ c.missed = {} /\ c.ret = "none" /\ of = 0
  BY <1>1 DEF IsCall, Place
<1>3. IsCall(d)
  <2>1. 0 \in 0 .. Len(hits)
    OBVIOUS
  <2> QED
    BY <1>1, <1>2, <2>1 DEF IsCall
<1>4. Place(r, d, "none", 0)
  BY <1>2 DEF Place
<1>5. Follows(d)
  <2>1. Over(d) = {} /\ Kepts(d) = {}
    BY <1>2 DEF Over, Kepts
  <2> QED
    BY <1>2, <2>1 DEF Follows
<1>6. Owns(r, d, "none", G)
  <2>1. /\ Working(r, c, s) = {<<"body", 0>>} /\ Working(r, d, "none") = Base(r, d)
        /\ Kept(d) = Kept(c)
    BY <1>1, <1>2, SameKept DEF Working, Asking
  <2>2. \A x \in {<<"body", of>>} : x[1] \notin PartNames /\ x[1] # "list"
    BY DEF PartNames
  <2>3. CASE r = "page"
    <3>1. Base(r, d) = {<<"tree", 0>>, <<"list", 0>>, <<"body", 0>>}
      BY <2>3 DEF Base
    <3>2. Moves(r, c, s, H, d, "none", G, {<<"tree", 0>>, <<"list", 0>>}, {}, {})
      BY <1>2, <2>1, <2>3, <3>1 DEF Moves
    <3> QED
      BY <1>1, <3>2, HeapStep
  <2>4. CASE r = "json"
    <3>1. Base(r, d) = HitList(hits) /\ ~Paging(r, d)
      BY <1>2, <2>4 DEF Base, Paging
    <3>2. G = (H \ {<<"body", of>>}) \cup HitList(hits)
      BY <2>4
    <3>3. Moves(r, c, s, H, d, "none", G, HitList(hits), {<<"body", of>>}, {})
      BY <1>2, <2>1, <2>2, <3>1, <3>2 DEF Moves
    <3> QED
      BY <1>1, <3>3, HeapStep
  <2> QED
    BY <2>3, <2>4
<1> QED
  BY <1>3, <1>4, <1>5, <1>6 DEF CallInv

(* A hit without an id is left out.                                         *)
LEMMA SkipKeeps ==
  ASSUME NEW r, NEW c, NEW s, NEW of, NEW H, CallInv(r, c, s, of, H), c.st = "hits",
         c.h < Len(c.hits), ~c.hits[c.h + 1].id,
         NEW d, d = [c EXCEPT !.h = @ + 1]
  PROVE  CallInv(r, d, s, of, H)
<1>1. IsCall(c) /\ Place(r, c, s, of) /\ Follows(c) /\ Owns(r, c, s, H)
  BY DEF CallInv
<1>2. c.h + 1 \in 0 .. Len(c.hits) /\ c.h \in Nat
  BY <1>1 DEF IsCall
<1>3. /\ d.st = "hits" /\ d.hits = c.hits /\ d.h = c.h + 1 /\ d.pkgs = c.pkgs
      /\ d.missed = c.missed /\ d.ret = c.ret /\ IsCall(d)
  <2> DEFINE n == c.h + 1
  <2>1. n \in 0 .. Len(c.hits) /\ d = [c EXCEPT !.h = n]
    BY <1>2
  <2> HIDE DEF n
  <2>2. /\ d.st = "hits" /\ d.hits = c.hits /\ d.h = n /\ d.pkgs = c.pkgs
        /\ d.missed = c.missed /\ d.ret = c.ret /\ IsCall(d)
    BY <1>1, <2>1 DEF IsCall
  <2> QED
    BY <2>2 DEF n
<1>4. Place(r, d, s, of)
  BY <1>1, <1>3 DEF Place
<1>5. Follows(d)
  <2>1. Over(d) = Over(c) \cup {c.h + 1}
    BY <1>2, <1>3 DEF Over
  <2>2. c.h + 1 \notin Numbered(c.hits)
    BY DEF Numbered
  <2> QED
    BY <1>1, <1>3, <2>1, <2>2, SameKept DEF Follows
<1>6. Working(r, d, s) = Working(r, c, s) /\ Kept(d) = Kept(c) /\ Paging(r, d) = Paging(r, c)
  <2>0. d.hits = c.hits
    BY <1>3
  <2>1. Kept(d) = Kept(c)
    BY <1>3, SameKept
  <2>1a. Base(r, d) = Base(r, c)
    BY ONLY <2>0 DEF Base
  <2>2. Working(r, d, s) = Base(r, d) /\ Working(r, c, s) = Base(r, c)
    BY <1>3 DEF Working
  <2>3. Paging(r, d) = Paging(r, c)
    BY <1>3 DEF Paging
  <2> QED
    BY <2>1, <2>1a, <2>2, <2>3
<1>7. Owns(r, d, s, H)
  <2>1. Moves(r, c, s, H, d, s, H, {}, {}, {})
    BY <1>3, <1>6 DEF Moves
  <2> QED
    BY <1>1, <2>1, HeapStep
<1> QED
  BY <1>3, <1>4, <1>5, <1>7 DEF CallInv

(* The hit that is being asked for, or built, is left out.                  *)
LEMMA AfterFollows ==
  ASSUME NEW r, NEW c, NEW s, NEW of, IsCall(c), Place(r, c, s, of), Follows(c),
         c.st \in {"versions", "build"}, NEW d, d = After(c)
  PROVE  /\ IsCall(d) /\ Place(r, d, "none", 0) /\ Follows(d)
         /\ d.st = "hits" /\ d.hits = c.hits /\ d.h = c.h /\ d.pkgs = c.pkgs
         /\ d.missed = c.missed \cup {c.h}
<1>1. /\ d.st = "hits" /\ d.hits = c.hits /\ d.h = c.h /\ d.pkgs = c.pkgs
      /\ d.missed = c.missed \cup {c.h} /\ d.ret = c.ret /\ IsCall(d)
  BY DEF IsCall, After
<1>2. Place(r, d, "none", 0)
  BY <1>1 DEF Place
<1>3. c.h \in Nat /\ c.h \in 1 .. Len(c.hits)
  BY DEF IsCall, Place, Numbered
<1>4. Over(c) = 1 .. c.h - 1 /\ Over(d) = Over(c) \cup {c.h}
  BY <1>1, <1>3 DEF Over
<1>5. Follows(d)
  BY <1>1, <1>4, SameKept DEF Follows
<1> QED
  BY <1>1, <1>2, <1>5

(* ... with A made and R freed: what stays of the hit is a half list. *)
(* A hit is given up: A is what stays of its package, R what is freed.      *)
Leaves(r, c, s, H, A, R, G) ==
  /\ c.st \in {"versions", "build"} /\ G = (H \cup A) \ R
  /\ \A x \in R : x[1] \notin PartNames /\ x[1] # "list"
  /\ \A x \in A : r = "page" /\ \E p \in {"sha512", "dep1", "dep2"} : x = <<p, c.h>>
  /\ \A x : x \in Working(r, c, s) /\ x \notin R => x \in Base(r, c)

(* A hit is given up, with what is left of it.                              *)
LEMMA AfterKeeps ==
  ASSUME NEW r, NEW c, NEW s, NEW of, NEW H, CallInv(r, c, s, of, H), NEW d, d = After(c),
         NEW A, NEW R, NEW G, Leaves(r, c, s, H, A, R, G)
  PROVE  CallInv(r, d, "none", 0, G)
<1>0. /\ c.st \in {"versions", "build"} /\ G = (H \cup A) \ R
      /\ \A x \in R : x[1] \notin PartNames /\ x[1] # "list"
      /\ \A x \in A : r = "page" /\ \E p \in {"sha512", "dep1", "dep2"} : x = <<p, c.h>>
      /\ \A x : x \in Working(r, c, s) /\ x \notin R => x \in Base(r, c)
  BY DEF Leaves
<1>1. IsCall(c) /\ Place(r, c, s, of) /\ Follows(c) /\ Owns(r, c, s, H)
  BY DEF CallInv
<1>2. /\ IsCall(d) /\ Place(r, d, "none", 0) /\ Follows(d)
      /\ d.st = "hits" /\ d.hits = c.hits /\ d.h = c.h /\ d.pkgs = c.pkgs
      /\ d.missed = c.missed \cup {c.h}
  BY <1>0, <1>1, AfterFollows
<1>3. /\ Working(r, d, "none") = Base(r, c) /\ Kept(d) = Kept(c)
      /\ Paging(r, d) => Paging(r, c)
  BY <1>0, <1>1, <1>2, SameKept DEF Working, Base, Paging
<1>4. \A x \in A : x \in Half(r, d)
  BY <1>0, <1>2 DEF Half
<1>5. Moves(r, c, s, H, d, "none", G, A, R, {})
  BY <1>0, <1>2, <1>3, <1>4 DEF Moves
<1> QED
  BY <1>1, <1>2, <1>5, HeapStep DEF CallInv

-----------------------------------------------------------------------------
(* A version is found, and its tree is kept while the package is built.     *)
LEMMA VersionsFound ==
  ASSUME NEW r, NEW c, NEW s, NEW of, NEW H, CallInv(r, c, s, of, H), c.st = "versions",
         s = "ok", NEW v \in Versions,
         NEW d, d = [c EXCEPT !.st = "build", !.ver = v],
         NEW G, G = H \cup {<<"tree", c.h>>}
  PROVE  CallInv(r, d, "none", 0, G)
<1>1. IsCall(c) /\ Place(r, c, s, of) /\ Follows(c) /\ Owns(r, c, s, H)
  BY DEF CallInv
<1>2. /\ d.st = "build" /\ d.hits = c.hits /\ d.h = c.h /\ d.pkgs = c.pkgs
      /\ d.missed = c.missed /\ d.ret = c.ret /\ IsCall(d)
  BY <1>1 DEF IsCall
<1>3. Place(r, d, "none", 0)
  BY <1>1, <1>2 DEF Place
<1>4. Follows(d)
  <2>1. Over(d) = Over(c)
    BY <1>2 DEF Over
  <2> QED
    BY <1>1, <1>2, <2>1, SameKept DEF Follows
<1>5. Owns(r, d, "none", G)
  <2>1. Working(r, c, s) = Base(r, c) \cup {<<"body", c.h>>}
    BY DEF Working, Asking
  <2>2. Base(r, d) = Base(r, c)
    <3>1. d.hits = c.hits
      BY <1>2
    <3> QED
      BY ONLY <3>1 DEF Base
  <2>3. Working(r, d, "none") = Base(r, c) \cup {<<"tree", c.h>>, <<"body", c.h>>}
    BY <1>2, <2>2 DEF Working
  <2>4. Paging(r, d) => Paging(r, c)
    BY <1>2 DEF Paging
  <2>5. Kept(d) = Kept(c)
    BY <1>2, SameKept
  <2>6. Moves(r, c, s, H, d, "none", G, {<<"tree", c.h>>}, {}, {})
    BY <1>2, <2>1, <2>3, <2>4, <2>5 DEF Moves
  <2> QED
    BY <1>1, <2>6, HeapStep
<1> QED
  BY <1>2, <1>3, <1>4, <1>5 DEF CallInv

(* The k-th part of a package fails: a list half full is all that stays. *)
LEMMA HalfBuilt ==
  ASSUME NEW r \in {"page", "json"}, NEW hit \in Hits, NEW v \in Versions,
         NEW k \in DOMAIN Parts(r, hit, v),
         NEW made, made = {Parts(r, hit, v)[i] : i \in 1 .. (k - 1)}
  PROVE  /\ r = "page" => made \ Frees(r, Parts(r, hit, v)[k], made)
                            \subseteq {"sha512", "dep1", "dep2"}
         /\ r = "json" => made \ Frees(r, Parts(r, hit, v)[k], made) = {}
<1>1. CASE r = "json"
  BY <1>1 DEF Frees
<1>2. CASE r = "page"
  <2> DEFINE s == Parts(r, hit, v)
  <2>1. Ascends(s, 1, 12)
    BY <1>2, PagePartsAscend DEF Parts
  <2> HIDE DEF s
  <2>2. s \in Seq(PartNames) /\ k \in 1 .. Len(s) /\ Len(s) \in Nat
    BY <2>1, LenProperties DEF Ascends, s
  <2>3. ASSUME NEW p \in made PROVE p \in PartNames /\ Rank(p) < Rank(s[k])
    <3>1. PICK i \in 1 .. (k - 1) : p = s[i]
      BY DEF s
    <3>2. i \in 1 .. Len(s) /\ i < k
      BY <2>2
    <3> QED
      BY <2>1, <2>2, <3>1, <3>2 DEF Ascends
  <2>4. CASE s[k] \in {"sha512", "sha1"}
    <3>1. "sha1" \notin made
      <4>1. Rank(s[k]) \in {6, 7} /\ Rank("sha1") = 7
        BY <2>4, PartsRanked
      <4>2. ~(Rank("sha1") < Rank(s[k]))
        BY <4>1
      <4> QED
        BY <2>3, <4>2
    <3>2. made \ Frees(r, s[k], made) \subseteq {"sha512", "sha1"}
      BY <1>2, <2>4 DEF Frees
    <3> QED
      BY <1>2, <3>1, <3>2 DEF s
  <2>5. CASE s[k] \in {"dep1", "dep2", "dep3"}
    <3>1. "dep3" \notin made
      <4>1. Rank(s[k]) \in {9, 10, 11} /\ Rank("dep3") = 11
        BY <2>5, PartsRanked
      <4>2. ~(Rank("dep3") < Rank(s[k]))
        BY <4>1
      <4> QED
        BY <2>3, <4>2
    <3>2. made \ Frees(r, s[k], made) \subseteq {"dep1", "dep2", "dep3"}
      BY <1>2, <2>5 DEF Frees
    <3> QED
      BY <1>2, <3>1, <3>2 DEF s
  <2>6. CASE s[k] \notin {"sha512", "sha1", "dep1", "dep2", "dep3"}
    BY <1>2, <2>6 DEF Frees, s
  <2> QED
    BY <2>4, <2>5, <2>6
<1> QED
  BY <1>1, <1>2

(* All that a finished package is made of.                                  *)
LEMMA PartsNamed ==
  ASSUME NEW r \in {"page", "json"}, NEW hit \in Hits, NEW v \in Versions
  PROVE  Range(Parts(r, hit, v)) \ {"text"} \subseteq PartNames
<1>1. Parts(r, hit, v) \in Seq(PartNames \cup {"text"})
  <2>1. CASE r = "page"
    BY <2>1, PagePartsAscend DEF Parts, Ascends
  <2>2. CASE r = "json"
    BY <2>2, JsonPartsNamed DEF Parts
  <2> QED
    BY <2>1, <2>2
<1> DEFINE s == Parts(r, hit, v)
<1>2. \A i \in DOMAIN s : s[i] \in PartNames \cup {"text"}
  BY <1>1, LenProperties
<1> QED
  BY <1>2 DEF Range

(* The package is complete and goes into the page. *)
LEMMA PackageKept ==
  ASSUME NEW r, NEW c, NEW s, NEW of, NEW H, CallInv(r, c, s, of, H), c.st = "build",
         NEW parts \in SUBSET PartNames,
         NEW d, d = [c EXCEPT !.st = "hits", !.pkgs = Append(@, [hit |-> c.h, parts |-> parts])],
         NEW G, G = (H \cup Of(c.h, parts)) \ {<<"tree", c.h>>, <<"body", c.h>>}
  PROVE  CallInv(r, d, "none", 0, G)
<1> DEFINE pkg == [hit |-> c.h, parts |-> parts]
           m == Len(c.pkgs)
           pkgs == Append(c.pkgs, pkg)
<1>1. IsCall(c) /\ Place(r, c, s, of) /\ Follows(c) /\ Owns(r, c, s, H)
  BY DEF CallInv
<1>2. c.h \in Nat /\ c.h \in 1 .. Len(c.hits) /\ c.h \in Numbered(c.hits)
  BY <1>1 DEF IsCall, Place, Numbered
<1>3. pkg \in Packages
  BY <1>2 DEF Packages
<1>4. /\ pkgs \in Seq(Packages) /\ Len(pkgs) = m + 1 /\ pkgs[m + 1] = pkg
      /\ \A i \in 1 .. m : pkgs[i] = c.pkgs[i]
      /\ m \in Nat
  <2> HIDE DEF pkg
  <2> QED
    BY <1>1, <1>3, AppendProperties, LenProperties DEF IsCall
<1> HIDE DEF pkg, pkgs
<1>5. /\ d.st = "hits" /\ d.hits = c.hits /\ d.h = c.h /\ d.pkgs = pkgs
      /\ d.missed = c.missed /\ d.ret = c.ret /\ IsCall(d)
  <2>1. d = [c EXCEPT !.st = "hits", !.pkgs = pkgs]
    BY <1>1 DEF pkgs, pkg, IsCall
  <2> QED
    BY <1>1, <1>4, <2>1 DEF IsCall
<1>6. Place(r, d, "none", 0)
  BY <1>1, <1>5 DEF Place
<1>7. Follows(d)
  <2>1. Over(c) = 1 .. c.h - 1 /\ Over(d) = Over(c) \cup {c.h}
    BY <1>2, <1>5 DEF Over
  <2>2. pkgs[m + 1].hit = c.h
    BY <1>4 DEF pkg
  <2>3. Kepts(d) = Kepts(c) \cup {c.h}
    <3>1. Kepts(d) = {pkgs[i].hit : i \in 1 .. m + 1}
      BY <1>4, <1>5 DEF Kepts
    <3>2. 1 .. m + 1 = (1 .. m) \cup {m + 1}
      BY <1>4
    <3> QED
      BY <1>4, <2>2, <3>1, <3>2 DEF Kepts
  <2>4. \A i \in 1 .. m : c.pkgs[i].hit \in 1 .. c.h - 1
    BY <1>1, <2>1 DEF Follows, Kepts
  <2>5. ASSUME NEW i \in 1 .. m + 1, NEW j \in 1 .. m + 1, i < j
        PROVE  pkgs[i].hit < pkgs[j].hit
    <3>1. i \in 1 .. m /\ pkgs[i] = c.pkgs[i]
      BY <1>4, <2>5
    <3>2. CASE j = m + 1
      BY <1>2, <2>2, <2>4, <3>1, <3>2
    <3>3. CASE j # m + 1
      <4>1. j \in 1 .. m /\ pkgs[j] = c.pkgs[j]
        BY <1>4, <3>3
      <4> QED
        BY <1>1, <2>5, <3>1, <4>1 DEF Follows
    <3> QED
      BY <3>2, <3>3
  <2>6. c.h \notin c.missed
    BY <1>1, <1>2, <2>1 DEF Follows
  <2>7. Kepts(d) = (Numbered(d.hits) \cap Over(d)) \ d.missed /\ d.missed \subseteq Over(d)
    BY <1>1, <1>2, <1>5, <2>1, <2>3, <2>6 DEF Follows
  <2> QED
    BY <1>4, <1>5, <2>5, <2>7 DEF Follows
<1>8. Owns(r, d, "none", G)
  <2> DEFINE R == {<<"tree", c.h>>, <<"body", c.h>>}
             A == Of(c.h, parts)
  <2>1. Kept(d) = Kept(c) \cup A
    <3>1. Range(pkgs) = Range(c.pkgs) \cup {pkg}
      <4>1. DOMAIN pkgs = (1 .. m) \cup {m + 1} /\ DOMAIN c.pkgs = 1 .. m
        BY <1>1, <1>4, LenProperties DEF IsCall
      <4> QED
        BY <1>4, <4>1 DEF Range
    <3>2. Of(pkg.hit, pkg.parts) = A
      BY DEF pkg
    <3> QED
      BY <1>5, <3>1, <3>2 DEF Kept
  <2>2. \A x \in R : x[1] \notin PartNames /\ x[1] # "list"
    BY DEF PartNames
  <2>3. \A x \in A : x[1] \in PartNames
    BY DEF Of
  <2>4. Working(r, c, s) = Base(r, c) \cup R
    BY DEF Working
  <2>5. Base(r, d) = Base(r, c)
    <3>1. d.hits = c.hits
      BY <1>5
    <3> QED
      BY ONLY <3>1 DEF Base
  <2>6. Working(r, d, "none") = Base(r, c)
    BY <1>5, <2>5 DEF Working
  <2>7. Paging(r, d) => Paging(r, c)
    BY <1>5 DEF Paging
  <2>8. G = (H \cup A) \ R
    OBVIOUS
  <2> HIDE DEF R, A
  <2>9. Moves(r, c, s, H, d, "none", G, A, R, A)
    BY <1>5, <2>1, <2>2, <2>3, <2>4, <2>6, <2>7, <2>8 DEF Moves
  <2> QED
    BY <1>1, <2>9, HeapStep
<1> QED
  BY <1>5, <1>6, <1>7, <1>8 DEF CallInv

(* The call returns.                                                        *)
LEMMA ReturnKeeps ==
  ASSUME NEW r, NEW c, NEW s, NEW of, NEW H, CallInv(r, c, s, of, H), c.st = "hits",
         c.h = Len(c.hits), NEW d, d = [c EXCEPT !.st = "done", !.ret = "ok"],
         NEW G, G = H \ ({<<"tree", 0>>, <<"body", 0>>} \cup HitList(c.hits))
  PROVE  CallInv(r, d, s, of, G)
<1>1. IsCall(c) /\ Place(r, c, s, of) /\ Follows(c) /\ Owns(r, c, s, H)
  BY DEF CallInv
<1>2. /\ d.st = "done" /\ d.hits = c.hits /\ d.h = c.h /\ d.pkgs = c.pkgs
      /\ d.missed = c.missed /\ d.ret = "ok" /\ IsCall(d)
  BY <1>1 DEF IsCall
<1>3. Place(r, d, s, of)
  BY <1>1, <1>2 DEF Place
<1>4. Follows(d)
  <2>1. Over(d) = Over(c)
    BY <1>2 DEF Over
  <2> QED
    BY <1>1, <1>2, <2>1, SameKept DEF Follows
<1>5. Owns(r, d, s, G)
  <2> DEFINE R == {<<"tree", 0>>, <<"body", 0>>} \cup HitList(c.hits)
  <2>1. \A x \in R : x[1] \notin PartNames /\ x[1] # "list"
    BY HitListKinds DEF PartNames
  <2>2. /\ Working(r, c, s) = Base(r, c)
        /\ Working(r, d, s) = IF r = "page" THEN {<<"list", 0>>} ELSE {}
    BY <1>2 DEF Working
  <2>3. \A x \in Base(r, c) : x \in R \/ (r = "page" /\ x = <<"list", 0>>)
    BY DEF Base
  <2>4. Kept(d) = Kept(c)
    BY <1>2, SameKept
  <2>5. Paging(r, d) => Paging(r, c)
    BY <1>2 DEF Paging
  <2> HIDE DEF R
  <2>6. G = H \ R
    BY DEF R
  <2>7. Moves(r, c, s, H, d, s, G, {}, R, {})
    BY <1>2, <2>1, <2>2, <2>3, <2>4, <2>5, <2>6 DEF Moves
  <2> QED
    BY <1>1, <2>7, HeapStep
<1> QED
  BY <1>2, <1>3, <1>4, <1>5 DEF CallInv

(* A version is chosen.                                                     *)
LEMMA ChooseKeeps ==
  ASSUME NEW r, NEW c, NEW s, NEW of, NEW H, CallInv(r, c, s, of, H), c.st = "start",
         NEW vs, NEW only, NEW best,
         NEW d, d = [c EXCEPT !.st = "done", !.from = vs, !.only = only, !.best = best]
  PROVE  CallInv(r, d, s, of, H)
<1>1. IsCall(c) /\ Place(r, c, s, of) /\ Follows(c) /\ Owns(r, c, s, H)
  BY DEF CallInv
<1>2. /\ d.st = "done" /\ d.hits = c.hits /\ d.h = c.h /\ d.pkgs = c.pkgs
      /\ d.missed = c.missed /\ d.ret = c.ret /\ IsCall(d)
  BY <1>1 DEF IsCall
<1>3. Place(r, d, s, of) /\ ~Paging(r, d) /\ Follows(d)
  <2>1. Over(d) = Over(c) /\ c.ret = "none"
    BY <1>1, <1>2 DEF Over, Place
  <2> QED
    BY <1>1, <1>2, <2>1, SameKept DEF Place, Paging, Follows
<1>4. Working(r, c, s) = {} /\ Kept(d) = Kept(c)
  BY <1>2, SameKept DEF Working
<1>5. Moves(r, c, s, H, d, s, H, {}, {}, {})
  BY <1>2, <1>3, <1>4 DEF Moves
<1> QED
  BY <1>1, <1>2, <1>3, <1>5, HeapStep DEF CallInv

-----------------------------------------------------------------------------
(* Without a request, what it was for does not matter.                      *)
LEMMA NoRequestOf ==
  ASSUME NEW r, NEW c, NEW a, NEW b, NEW H, CallInv(r, c, "none", a, H)
  PROVE  CallInv(r, c, "none", b, H)
  BY DEF CallInv, Place

(* A step of one call leaves the others as they are.                        *)
LEMMA OneCall ==
  ASSUME PageInv, NEW t \in Threads, route' = route,
         DOMAIN call' = Threads, DOMAIN heap' = Threads,
         \A u \in Threads \ {t} :
           /\ call'[u] = call[u] /\ heap'[u] = heap[u]
           /\ req'[u].st = req[u].st /\ req'[u].of = req[u].of,
         CallInv(route[t], call'[t], req'[t].st, req'[t].of, heap'[t])
  PROVE  PageInv'
<1>1. \A u \in Threads : CallInv(route'[u], call'[u], req'[u].st, req'[u].of, heap'[u])
  BY DEF PageInv
<1> QED
  BY <1>1 DEF PageInv, CallInv, IsCall, Place, Follows, Owns, Kept, Half, Working, Base, Paging

(* Before the first step no call holds anything.                            *)
LEMMA InitPageInv == Init => PageInv
<1> SUFFICES ASSUME Init PROVE PageInv
  OBVIOUS
<1>1. \A t \in Threads : call[t] = NoCall /\ heap[t] = {} /\ req[t] = NoRequest
  BY DEF Init, NetInit
<1>2. NoRequest.st = "none"
  BY DEF NoRequest
<1>3. /\ NoCall.st = "start" /\ NoCall.hits = <<>> /\ NoCall.h = 0 /\ NoCall.pkgs = <<>>
      /\ NoCall.missed = {} /\ NoCall.ret = "none" /\ IsCall(NoCall)
  BY DEF NoCall, IsCall
<1>4. \A r, of : Place(r, NoCall, "none", of)
  BY <1>3 DEF Place
<1>5. Follows(NoCall)
  <2>1. Over(NoCall) = {} /\ Kepts(NoCall) = {}
    BY <1>3 DEF Over, Kepts
  <2> QED
    BY <1>3, <2>1 DEF Follows
<1>6. \A r : Owns(r, NoCall, "none", {})
  <2>1. Kept(NoCall) = {}
    BY <1>3 DEF Kept, Range
  <2>2. \A r : ~Paging(r, NoCall)
    BY <1>3 DEF Paging
  <2> QED
    BY <2>1, <2>2 DEF Owns
<1>7. DOMAIN call = Threads /\ DOMAIN heap = Threads
  BY DEF Init, NetInit
<1> QED
  BY <1>1, <1>2, <1>3, <1>4, <1>5, <1>6, <1>7 DEF PageInv, CallInv

-----------------------------------------------------------------------------
(* The client's callbacks, whatever call they work for.                     *)
LEMMA NetKeepsPages ==
  ASSUME IInv, PageInv, NetStep, UNCHANGED <<route, call>>
  PROVE  PageInv'
<1>0. /\ DOMAIN req = Threads /\ DOMAIN heap = Threads /\ DOMAIN call = Threads
      /\ \A u \in Threads : IsRequest(req[u])
      /\ \A u \in Threads : CallInv(route[u], call[u], req[u].st, req[u].of, heap[u])
  BY DEF IInv, TypeOK, PageInv
<1>1. PICK t \in Threads : HeaderLine(t) \/ BodyPiece(t) \/ TransferFails(t) \/ TransferEnds(t)
  BY DEF NetStep
<1>2. CASE HeaderLine(t)
  <2> DEFINE r == req[t]
             others == {u \in Threads \ {t} : Midway(u)}
             alone == (Len(r.lines) = Len(Fields) \/ r.alone) /\ others = {}
             lines == Tail(r.lines)
  <2>1. /\ req' = [u \in Threads |->
                   IF u = t THEN [r EXCEPT !.lines = lines, !.alone = alone]
                   ELSE IF u \in others THEN [req[u] EXCEPT !.alone = FALSE] ELSE req[u]]
        /\ heap' = heap
    BY <1>2 DEF HeaderLine
  <2> HIDE DEF others, alone, lines
  <2>2. \A q : IsRequest(q) =>
          /\ [q EXCEPT !.lines = lines, !.alone = alone].st = q.st
          /\ [q EXCEPT !.lines = lines, !.alone = alone].of = q.of
          /\ [q EXCEPT !.alone = FALSE].st = q.st
          /\ [q EXCEPT !.alone = FALSE].of = q.of
    BY DEF IsRequest
  <2>3. \A u \in Threads : req'[u].st = req[u].st /\ req'[u].of = req[u].of
    BY <1>0, <2>1, <2>2
  <2>4. CallInv(route[t], call'[t], req'[t].st, req'[t].of, heap'[t])
    BY <1>0, <2>1, <2>3
  <2> QED
    BY <1>0, <2>1, <2>3, <2>4, OneCall
<1>3. CASE BodyPiece(t)
  <2>1. /\ req[t].st = "open" /\ req' = req
        /\ heap' = [heap EXCEPT ![t] = @ \cup {<<"body", req[t].of>>}]
    BY <1>3 DEF BodyPiece, Body
  <2>2. heap'[t] = heap[t] \cup {<<"body", req[t].of>>}
        /\ DOMAIN heap' = Threads /\ \A u \in Threads \ {t} : heap'[u] = heap[u]
    BY <1>0, <2>1
  <2>3. CallInv(route[t], call'[t], req'[t].st, req'[t].of, heap'[t])
    BY <1>0, <2>1, <2>2, AnswerGrows
  <2> QED
    BY <1>0, <2>1, <2>2, <2>3, OneCall
<1>4. CASE TransferFails(t) \/ TransferEnds(t)
  <2> DEFINE q == IF TransferFails(t) THEN "failed" ELSE "ok"
             N == {k \in heap[t] : k[1] \in {"query", "url", "handle", "headers"}}
  <2>1. req[t].st = "open"
    BY <1>4 DEF TransferFails, TransferEnds
  <2>2. /\ req'[t].st = q /\ req'[t].of = req[t].of
        /\ \A u \in Threads \ {t} : req'[u] = req[u]
    <3>1. IsRequest(req[t])
      BY <1>0
    <3> QED
      BY <1>0, <1>4, <3>1 DEF TransferFails, TransferEnds, IsRequest
  <2>3. /\ DOMAIN heap' = Threads /\ \A u \in Threads \ {t} : heap'[u] = heap[u]
        /\ heap'[t] = IF q = "ok" THEN heap[t] \ N ELSE (heap[t] \ N) \ {<<"body", req[t].of>>}
    BY <1>0, <1>4 DEF TransferFails, TransferEnds, Closed, Opened, Body
  <2>4. CallInv(route[t], call[t], "open", req[t].of, heap[t])
    BY <1>0, <2>1
  <2>5. CallInv(route[t], call'[t], req'[t].st, req'[t].of, heap'[t])
    BY <2>2, <2>3, <2>4, AnswerGone
  <2> HIDE DEF q, N
  <2> QED
    BY <1>0, <2>2, <2>3, <2>5, OneCall
<1> QED
  BY <1>1, <1>2, <1>3, <1>4

(* The version that is taken is one of those answered.                      *)
LEMMA ChosenAmong ==
  ASSUME NEW vs \in Seq(Versions) \ {<<>>}, NEW only \in BOOLEAN
  PROVE  /\ vs[1] \in Versions
         /\ Chosen(vs, only).idx > 0 => vs[Chosen(vs, only).idx] \in Versions
<1>1. /\ Chosen(vs, only).idx \in Nat
      /\ Chosen(vs, only).idx = 0 \/ Chosen(vs, only).idx \in 1 .. Len(vs)
  BY ChosenIsBest DEF BestOf, Best, Fits
<1>2. Len(vs) \in Nat /\ Len(vs) # 0 /\ vs \in [1 .. Len(vs) -> Versions]
  OBVIOUS
<1> QED
  BY <1>1, <1>2

(* No useful answer about a hit.                                            *)
LEMMA AnswerUseless ==
  ASSUME NEW r, NEW c, NEW s, NEW of, NEW H, CallInv(r, c, s, of, H), c.st = "versions",
         s \in {"ok", "failed"},
         NEW d, d = After(c), NEW G, G = H \ {<<"body", of>>}
  PROVE  CallInv(r, d, "none", 0, G)
<1> DEFINE R == {<<"body", of>>}
<1>1. of = c.h
  BY DEF CallInv, Place
<1>2. \A x : x \in Working(r, c, s) /\ x \notin R => x \in Base(r, c)
  BY <1>1 DEF Working, Asking
<1>3. \A x \in R : x[1] \notin PartNames /\ x[1] # "list"
  BY DEF PartNames
<1>4. G = (H \cup {}) \ R
  OBVIOUS
<1> HIDE DEF R
<1>5. Leaves(r, c, s, H, {}, R, G)
  BY <1>2, <1>3, <1>4 DEF Leaves
<1> QED
  BY <1>5, AfterKeeps

(* A package is given up; only elements of a half full list stay behind.    *)
LEMMA BuildUseless ==
  ASSUME NEW r \in {"page", "json"}, NEW c, NEW s, NEW of, NEW H, CallInv(r, c, s, of, H),
         c.st = "build", NEW d, d = After(c), NEW left,
         r = "page" => left \subseteq {"sha512", "dep1", "dep2"}, r = "json" => left = {},
         NEW G, G = (H \cup Of(c.h, left)) \ {<<"tree", c.h>>, <<"body", c.h>>}
  PROVE  CallInv(r, d, "none", 0, G)
<1> DEFINE R == {<<"tree", c.h>>, <<"body", c.h>>}
           A == Of(c.h, left)
<1>1. \A x : x \in Working(r, c, s) /\ x \notin R => x \in Base(r, c)
  BY DEF Working
<1>2. \A x \in R : x[1] \notin PartNames /\ x[1] # "list"
  BY DEF PartNames
<1>3. \A x \in A : r = "page" /\ \E p \in {"sha512", "dep1", "dep2"} : x = <<p, c.h>>
  BY DEF Of
<1>4. G = (H \cup A) \ R
  OBVIOUS
<1> HIDE DEF A, R
<1>5. Leaves(r, c, s, H, A, R, G)
  BY <1>1, <1>2, <1>3, <1>4 DEF Leaves
<1> QED
  BY <1>5, AfterKeeps

(* Every step of a call.                                                    *)
LEMMA CallKeepsPages ==
  ASSUME IInv, PageInv, NEW t \in Threads, CallStep(t)
  PROVE  PageInv'
<1> DEFINE r == route[t]
           c == call[t]
           d == call'[t]
           H == heap[t]
           G == heap'[t]
           s == req[t].st
           of == req[t].of
<1>0. DOMAIN req = Threads /\ DOMAIN heap = Threads /\ DOMAIN call = Threads
      /\ CallInv(r, c, s, of, H)
  BY DEF IInv, TypeOK, PageInv
<1> DEFINE Alone == /\ route' = route /\ DOMAIN call' = Threads /\ DOMAIN heap' = Threads
                    /\ \A u \in Threads \ {t} :
                         /\ call'[u] = call[u] /\ heap'[u] = heap[u]
                         /\ req'[u].st = req[u].st /\ req'[u].of = req[u].of
<1> SUFFICES Alone /\ CallInv(r, d, req'[t].st, req'[t].of, G)
  BY OneCall
<1>a. IsCall(c) /\ Place(r, c, s, of)
  BY <1>0 DEF CallInv
<1>b. ASSUME NEW n, Update(t, n) PROVE DOMAIN call' = Threads /\ d = n
                                       /\ \A u \in Threads \ {t} : call'[u] = call[u]
  BY <1>0, <1>b DEF Update
<1>c. ASSUME NEW X, Holds(t, X) PROVE DOMAIN heap' = Threads /\ G = X
                                      /\ \A u \in Threads \ {t} : heap'[u] = heap[u]
  BY <1>0, <1>c DEF Holds
<1>d. ASSUME Rest(t) PROVE req'[t].st = "none" /\ req'[t].of = 0
                           /\ \A u \in Threads \ {t} : req'[u] = req[u]
  BY <1>0, <1>d DEF Rest, NoRequest
<1>e. Quiet => route' = route
  BY DEF Quiet
<1>1. CASE Choose(t)
  <2>1. PICK vs, only : Update(t, [c EXCEPT !.st = "done", !.from = vs, !.only = only,
                                            !.best = Chosen(vs, only)])
    BY <1>1 DEF Choose
  <2>2. c.st = "start" /\ UNCHANGED <<req, heap, route>>
    BY <1>1 DEF Choose, netVars
  <2>3. CallInv(r, d, s, of, H)
    BY <1>0, <1>b, <2>1, <2>2, ChooseKeeps
  <2> QED
    BY <1>0, <1>b, <2>1, <2>2, <2>3
<1>2. CASE Search(t)
  <2>1. /\ c.st = "start" /\ Request(t, 0) /\ route' = route /\ r \in {"page", "json", "raw"}
        /\ Update(t, [c EXCEPT !.st = "search"])
    BY <1>2 DEF Search
  <2>2. Requested(req'[t].st, 0, H, G) /\ req'[t].of = 0 /\ DOMAIN heap' = Threads
        /\ \A u \in Threads \ {t} : req'[u] = req[u] /\ heap'[u] = heap[u]
    BY <1>0, <2>1, RequestMakes
  <2>3. CallInv(r, d, req'[t].st, 0, G)
    BY <1>0, <1>b, <2>1, <2>2, SearchKeeps
  <2> QED
    BY <1>b, <2>1, <2>2, <2>3
<1>3. CASE AskVersions(t)
  <2>1. /\ c.st = "hits" /\ c.h < Len(c.hits) /\ c.hits[c.h + 1].id
        /\ Request(t, c.h + 1) /\ route' = route
        /\ Update(t, [c EXCEPT !.st = "versions", !.h = @ + 1])
    BY <1>3 DEF AskVersions
  <2>2. Requested(req'[t].st, c.h + 1, H, G) /\ req'[t].of = c.h + 1 /\ DOMAIN heap' = Threads
        /\ \A u \in Threads \ {t} : req'[u] = req[u] /\ heap'[u] = heap[u]
    BY <1>0, <2>1, RequestMakes
  <2>2a. /\ d = [c EXCEPT !.st = "versions", !.h = @ + 1] /\ DOMAIN call' = Threads
         /\ \A u \in Threads \ {t} : call'[u] = call[u]
    BY <1>b, <2>1
  <2> DEFINE n == c.h + 1
             q == req'[t].st
  <2>2b. AsksOf(c, d, n) /\ Requested(q, n, H, G)
    BY <2>1, <2>2, <2>2a DEF AsksOf
  <2> HIDE DEF r, c, d, H, G, s, of, n, q
  <2>3. CallInv(r, d, q, n, G)
    BY <1>0, <2>2b, AskVersionsKeeps
  <2>4. CallInv(r, d, req'[t].st, req'[t].of, G)
    BY <2>2, <2>3 DEF n, q
  <2>5. Alone
    BY <2>1, <2>2, <2>2a
  <2> QED
    BY <2>4, <2>5
<1>4. CASE SearchUseless(t) \/ SearchGivenUp(t)
  <2>1. /\ c.st = "search" /\ s \in {"ok", "failed"} /\ Rest(t) /\ Quiet
        /\ Holds(t, H \ {<<"body", of>>})
        /\ Update(t, [c EXCEPT !.st = "done", !.ret = "failed"])
    BY <1>4 DEF SearchUseless, SearchGivenUp, Answered, Finish, Body
  <2>1a. d = [c EXCEPT !.st = "done", !.ret = "failed"] /\ G = H \ {<<"body", of>>}
    BY <1>b, <1>c, <2>1
  <2> HIDE DEF r, c, d, H, G, s, of
  <2>2. CallInv(r, d, "none", 0, G)
    BY <1>0, <2>1, <2>1a, SearchOver
  <2> QED
    BY <1>b, <1>c, <1>d, <1>e, <2>1, <2>2
<1>5. CASE SearchUseful(t)
  <2>1. c.st = "search" /\ s = "ok" /\ r # "raw" /\ Rest(t) /\ Quiet
    BY <1>5 DEF SearchUseful
  <2>2. PICK hits \in Searches :
          /\ Update(t, [c EXCEPT !.st = "hits", !.hits = hits])
          /\ IF r = "page" THEN Holds(t, H \cup {<<"tree", 0>>, <<"list", 0>>})
             ELSE Holds(t, (H \ {<<"body", of>>}) \cup HitList(hits))
    BY <1>5 DEF SearchUseful, Body
  <2>3. hits \in Seq(Hits)
    BY AnswerAssumption
  <2>4. r \in {"page", "json"}
    BY <1>a, <2>1 DEF Place
  <2>4a. /\ d = [c EXCEPT !.st = "hits", !.hits = hits]
         /\ G = IF r = "page" THEN H \cup {<<"tree", 0>>, <<"list", 0>>}
                ELSE (H \ {<<"body", of>>}) \cup HitList(hits)
    BY <1>b, <1>c, <2>2
  <2> HIDE DEF r, c, d, H, G, s, of
  <2>5. CallInv(r, d, "none", 0, G)
    BY <1>0, <2>1, <2>3, <2>4, <2>4a, SearchFinds
  <2> QED
    BY <1>b, <1>c, <1>d, <1>e, <2>1, <2>2, <2>5
<1>6. CASE Skip(t)
  <2>1. /\ c.st = "hits" /\ c.h < Len(c.hits) /\ ~c.hits[c.h + 1].id
        /\ Update(t, [c EXCEPT !.h = @ + 1]) /\ UNCHANGED <<req, heap, route>>
    BY <1>6 DEF Skip, netVars
  <2>2. CallInv(r, d, s, of, H)
    BY <1>0, <1>b, <2>1, SkipKeeps
  <2> QED
    BY <1>0, <1>b, <2>1, <2>2
<1>7. CASE VersionsUseless(t)
  <2>1. /\ c.st = "versions" /\ s \in {"ok", "failed"} /\ Rest(t) /\ Quiet
        /\ Holds(t, H \ {<<"body", of>>}) /\ Update(t, After(c))
    BY <1>7 DEF VersionsUseless, Answered, Body
  <2>2. d = After(c) /\ G = H \ {<<"body", of>>}
    BY <1>b, <1>c, <2>1
  <2> HIDE DEF r, c, d, H, G, s, of
  <2>3. CallInv(r, d, "none", 0, G)
    BY <1>0, <2>1, <2>2, AnswerUseless
  <2> QED
    BY <1>b, <1>c, <1>d, <1>e, <2>1, <2>3 DEF r, c, d, H, G, s, of
<1>8. CASE VersionsUseful(t)
  <2>1. c.st = "versions" /\ s = "ok" /\ Rest(t) /\ Quiet
    BY <1>8 DEF VersionsUseful
  <2>2. PICK vs \in Answers :
          LET i == IF r = "page" THEN 1 ELSE Chosen(vs, FALSE).idx IN
          IF i > 0
          THEN /\ Holds(t, H \cup {<<"tree", c.h>>})
               /\ Update(t, [c EXCEPT !.st = "build", !.ver = vs[i]])
          ELSE /\ Holds(t, H \ {<<"body", of>>})
               /\ Update(t, After(c))
    BY <1>8 DEF VersionsUseful, Body
  <2> DEFINE i == IF r = "page" THEN 1 ELSE Chosen(vs, FALSE).idx
  <2>3. i > 0 => vs[i] \in Versions
    BY AnswerAssumption, ChosenAmong
  <2>4. CASE i > 0
    <3>1. d = [c EXCEPT !.st = "build", !.ver = vs[i]] /\ G = H \cup {<<"tree", c.h>>}
      BY <1>b, <1>c, <2>2, <2>4
    <3> HIDE DEF r, c, d, H, G, s, of
    <3>2. CallInv(r, d, "none", 0, G)
      BY <1>0, <2>1, <2>3, <2>4, <3>1, VersionsFound
    <3> QED
      BY <1>b, <1>c, <1>d, <1>e, <2>1, <2>2, <2>4, <3>2 DEF r, c, d, H, G, s, of
  <2>5. CASE ~(i > 0)
    <3>1. d = After(c) /\ G = H \ {<<"body", of>>}
      BY <1>b, <1>c, <2>2, <2>5
    <3> HIDE DEF r, c, d, H, G, s, of
    <3>2. CallInv(r, d, "none", 0, G)
      BY <1>0, <2>1, <3>1, AnswerUseless
    <3> QED
      BY <1>b, <1>c, <1>d, <1>e, <2>1, <2>2, <2>5, <3>2 DEF r, c, d, H, G, s, of
  <2> QED
    BY <2>4, <2>5
<1>9. CASE BuildFails(t)
  <2> DEFINE parts == Parts(r, c.hits[c.h], c.ver)
  <2>1. c.st = "build" /\ Update(t, After(c)) /\ Quiet /\ req' = req
    BY <1>9 DEF BuildFails
  <2>2. PICK k \in DOMAIN parts :
          LET made == {parts[i] : i \in 1..(k - 1)} IN
          Holds(t, (H \cup Of(c.h, made \ Frees(r, parts[k], made))) \ Answer(t))
    BY <1>9 DEF BuildFails
  <2> DEFINE made == {parts[i] : i \in 1..(k - 1)}
             left == made \ Frees(r, parts[k], made)
  <2>3. d = After(c) /\ G = (H \cup Of(c.h, left)) \ {<<"tree", c.h>>, <<"body", c.h>>}
    BY <1>b, <1>c, <2>1, <2>2 DEF Answer
  <2> HIDE DEF r, c, d, H, G, s, of
  <2>4. r \in {"page", "json"} /\ c.hits[c.h] \in Hits /\ c.ver \in Versions
    BY <1>a, <2>1 DEF Place, IsCall, Numbered
  <2>5. /\ r = "page" => left \subseteq {"sha512", "dep1", "dep2"}
        /\ r = "json" => left = {}
    BY <2>2, <2>4, HalfBuilt
  <2> HIDE DEF left, made, parts
  <2>6. CallInv(r, d, "none", 0, G)
    BY <1>0, <2>1, <2>3, <2>4, <2>5, BuildUseless
  <2>7. s = "none"
    BY <1>a, <2>1 DEF Place
  <2>8. CallInv(r, d, s, of, G)
    BY <2>6, <2>7, NoRequestOf
  <2> QED
    BY <1>b, <1>c, <1>e, <2>1, <2>2, <2>8 DEF r, c, d, H, G, s, of
<1>10. CASE BuildEnds(t)
  <2> DEFINE parts == Range(Parts(r, c.hits[c.h], c.ver)) \ {"text"}
             R == {<<"tree", c.h>>, <<"body", c.h>>}
  <2>1. c.st = "build" /\ Quiet /\ req' = req
    BY <1>10 DEF BuildEnds
  <2>2. \/ /\ Holds(t, (H \cup Of(c.h, parts)) \ R)
           /\ Update(t, [c EXCEPT !.st = "hits",
                                  !.pkgs = Append(@, [hit |-> c.h, parts |-> parts])])
        \/ Holds(t, H \ R) /\ Update(t, After(c))
    BY <1>10 DEF BuildEnds, Answer
  <2>3. \/ /\ G = (H \cup Of(c.h, parts)) \ R
           /\ d = [c EXCEPT !.st = "hits",
                            !.pkgs = Append(@, [hit |-> c.h, parts |-> parts])]
        \/ G = H \ R /\ d = After(c)
    BY <1>b, <1>c, <2>2
  <2>4. DOMAIN call' = Threads /\ DOMAIN heap' = Threads
        /\ \A u \in Threads \ {t} : call'[u] = call[u] /\ heap'[u] = heap[u]
    BY <1>b, <1>c, <2>2
  <2> HIDE DEF r, c, d, H, G, s, of
  <2>5. r \in {"page", "json"} /\ c.hits[c.h] \in Hits /\ c.ver \in Versions
    BY <1>a, <2>1 DEF Place, IsCall, Numbered
  <2>6. parts \in SUBSET PartNames
    BY <2>5, PartsNamed
  <2> HIDE DEF parts
  <2>7. CallInv(r, d, "none", 0, G)
    <3>1. CASE G = H \ R /\ d = After(c)
      <4>1. G = (H \cup Of(c.h, {})) \ R
        BY <3>1 DEF Of
      <4> QED
        BY <1>0, <2>1, <2>5, <3>1, <4>1, BuildUseless
    <3> QED
      BY <1>0, <2>1, <2>3, <2>6, <3>1, PackageKept
  <2>8. s = "none"
    BY <1>a, <2>1 DEF Place
  <2>9. CallInv(r, d, s, of, G)
    BY <2>7, <2>8, NoRequestOf
  <2> QED
    BY <1>e, <2>1, <2>4, <2>9 DEF r, c, d, H, G, s, of
<1>11. CASE Return(t)
  <2>1. /\ c.st = "hits" /\ c.h = Len(c.hits) /\ Quiet /\ req' = req
        /\ Holds(t, H \ ({<<"tree", 0>>, <<"body", 0>>} \cup HitList(c.hits)))
        /\ Update(t, [c EXCEPT !.st = "done", !.ret = "ok"])
    BY <1>11 DEF Return, Finish
  <2>1a. /\ d = [c EXCEPT !.st = "done", !.ret = "ok"]
         /\ G = H \ ({<<"tree", 0>>, <<"body", 0>>} \cup HitList(c.hits))
    BY <1>b, <1>c, <2>1
  <2> HIDE DEF r, c, d, H, G, s, of
  <2>2. CallInv(r, d, s, of, G)
    BY <1>0, <2>1, <2>1a, ReturnKeeps
  <2> QED
    BY <1>b, <1>c, <1>e, <2>1, <2>2 DEF r, c, d, H, G, s, of
<1> QED
  BY <1>1, <1>2, <1>3, <1>4, <1>5, <1>6, <1>7, <1>8, <1>9, <1>10, <1>11 DEF CallStep

-----------------------------------------------------------------------------
(* Whatever happens, the calls go on as PageInv says.                       *)
LEMMA NextPageInv == IInv /\ PageInv /\ [Next]_vars => PageInv'
<1> SUFFICES ASSUME IInv, PageInv, [Next]_vars PROVE PageInv'
  OBVIOUS
<1>1. CASE NetStep /\ UNCHANGED <<route, call>>
  BY <1>1, NetKeepsPages
<1>2. CASE UNCHANGED <<route, call, req, heap>>
  <2>1. \A t \in Threads : CallInv(route'[t], call'[t], req'[t].st, req'[t].of, heap'[t])
    BY <1>2 DEF PageInv
  <2> QED
    BY <1>2, <2>1 DEF PageInv, CallInv, IsCall, Place, Follows, Owns, Kept, Half, Working, Base,
                      Paging
<1>3. CASE (ReadField \/ SetHeader) /\ UNCHANGED <<route, call>>
  BY <1>2, <1>3 DEF ReadField, SetHeader
<1>4. ASSUME NEW t \in Threads, CallStep(t) PROVE PageInv'
  BY <1>4, CallKeepsPages
<1>5. CASE UNCHANGED vars
  BY <1>2, <1>5 DEF vars, netVars
<1> QED
  BY <1>1, <1>3, <1>4, <1>5 DEF Next

-----------------------------------------------------------------------------
(* A caller of choose_version_idx has not begun, or has what one pass over   *)
(* some list gives.                                                         *)
Chose(c) ==
  \/ c.st = "start"
  \/ /\ c.st = "done" /\ c.from \in Seq(Versions) /\ c.only \in BOOLEAN
     /\ c.best = Chosen(c.from, c.only)
ChoiceInv == \A t \in Threads : route[t] = "choose" => Chose(call[t])

(* A choice, once made, stays.                                              *)
LEMMA NextChoiceInv == PageInv /\ ChoiceInv /\ [Next]_vars => ChoiceInv'
<1> SUFFICES ASSUME PageInv, ChoiceInv, [Next]_vars PROVE ChoiceInv'
  OBVIOUS
<1>1. CASE UNCHANGED <<route, call>>
  <2>1. \A t \in Threads : route'[t] = "choose" => Chose(call'[t])
    BY <1>1 DEF ChoiceInv
  <2> QED
    BY <2>1 DEF ChoiceInv, Chose
<1>2. ASSUME NEW t \in Threads, CallStep(t) PROVE ChoiceInv'
  <2>1. DOMAIN call = Threads /\ IsCall(call[t])
    BY DEF PageInv, CallInv
  <2>2. route' = route
    BY <1>2 DEF CallStep, Choose, Search, SearchUseless, SearchUseful, SearchGivenUp, Skip,
                AskVersions, VersionsUseless, VersionsUseful, BuildFails, BuildEnds, Return, Quiet
  <2>3. \E c : call' = [call EXCEPT ![t] = c] /\ (route[t] = "choose" => Chose(c))
    <3>1. CASE Choose(t)
      <4>1. PICK vs \in ToChoose, only \in BOOLEAN :
              Update(t, [call[t] EXCEPT !.st = "done", !.from = vs, !.only = only,
                                        !.best = Chosen(vs, only)])
        BY <3>1 DEF Choose
      <4> DEFINE c == call[t]
                 best == Chosen(vs, only)
                 d == [c EXCEPT !.st = "done", !.from = vs, !.only = only, !.best = best]
      <4>2. IsCall(c) /\ vs \in Seq(Versions) /\ call' = [call EXCEPT ![t] = d]
        BY <2>1, <4>1, AnswerAssumption DEF Update
      <4> HIDE DEF c, best
      <4>3. d.st = "done" /\ d.from = vs /\ d.only = only /\ d.best = best
        BY <4>2 DEF IsCall
      <4> HIDE DEF d
      <4>4. Chose(d)
        BY <4>2, <4>3 DEF Chose, best
      <4> QED
        BY <4>2, <4>4
    <3>2. CASE Search(t)
      BY <3>2 DEF Search, Update
    <3>3. CASE ~Choose(t) /\ ~Search(t)
      <4>1. call[t].st \in {"search", "hits", "versions", "build"}
        BY <1>2, <3>3 DEF CallStep, SearchUseless, SearchUseful, SearchGivenUp, Skip,
                AskVersions, VersionsUseless, VersionsUseful, BuildFails, BuildEnds, Return
      <4>2. route[t] # "choose"
        BY <4>1 DEF ChoiceInv, Chose
      <4>3. \E c : Update(t, c)
        <5>1. SearchUseless(t) \/ SearchGivenUp(t) \/ Return(t) => \E c : Update(t, c)
          BY DEF SearchUseless, SearchGivenUp, Return, Finish
        <5>2. SearchUseful(t) => \E c : Update(t, c)
          BY DEF SearchUseful
        <5>3. Skip(t) \/ AskVersions(t) => \E c : Update(t, c)
          BY DEF Skip, AskVersions
        <5>4. VersionsUseless(t) \/ BuildFails(t) => \E c : Update(t, c)
          BY DEF VersionsUseless, BuildFails
        <5>5. VersionsUseful(t) => \E c : Update(t, c)
          BY DEF VersionsUseful
        <5>6. BuildEnds(t) => \E c : Update(t, c)
          BY DEF BuildEnds
        <5> QED
          BY <1>2, <3>3, <5>1, <5>2, <5>3, <5>4, <5>5, <5>6 DEF CallStep
      <4> QED
        BY <4>2, <4>3 DEF Update
    <3> QED
      BY <3>1, <3>2, <3>3
  <2>4. \A u \in Threads : route'[u] = "choose" => Chose(call'[u])
    BY <2>1, <2>2, <2>3 DEF ChoiceInv
  <2> QED
    BY <2>4 DEF ChoiceInv, Chose
<1>3. CASE UNCHANGED vars
  BY <1>1, <1>3 DEF vars
<1> QED
  BY <1>1, <1>2, <1>3 DEF Next

(* No choice is made at the start.                                          *)
LEMMA InitChoiceInv == Init => ChoiceInv
  BY DEF Init, ChoiceInv, Chose, NoCall

-----------------------------------------------------------------------------
(* The choice is the one that is promised.                                  *)
LEMMA ChoiceIsBest == ChoiceInv => BestVersion
<1> SUFFICES ASSUME ChoiceInv, NEW t \in Threads, route[t] = "choose", call[t].st = "done"
             PROVE  LET vs == call[t].from
                        fits == {i \in DOMAIN vs : Candidate(vs[i], call[t].only)}
                        i == call[t].best.idx IN
                    IF fits = {} THEN i = 0
                    ELSE /\ i \in fits
                         /\ \A j \in fits \ {i} :
                              ~Better(vs[j], vs[i]) /\ (j < i => Better(vs[i], vs[j]))
  BY DEF BestVersion
<1> DEFINE vs == call[t].from
           only == call[t].only
           best == call[t].best
<1>1. vs \in Seq(Versions) /\ only \in BOOLEAN /\ best = Chosen(vs, only)
  BY DEF ChoiceInv, Chose
<1>2. DOMAIN vs = 1 .. Len(vs)
  BY <1>1
<1> HIDE DEF vs, only, best
<1>3. BestOf(vs, only, Len(vs), best)
  BY <1>1, ChosenIsBest
<1> QED
  BY <1>2, <1>3 DEF BestOf, Fits, vs, only, best

(* The invariant, at the end of a call, is what is promised of a page.      *)
LEMMA PagesFollow == PageInv => PageFollowsHits
<1> SUFFICES ASSUME PageInv, NEW t \in Threads, call[t].ret = "ok"
             PROVE  LET c == call[t]
                        kept == [i \in DOMAIN c.pkgs |-> c.pkgs[i].hit] IN
                    /\ \A i, j \in DOMAIN kept : i < j => kept[i] < kept[j]
                    /\ Range(kept) = Numbered(c.hits) \ c.missed
  BY DEF PageFollowsHits
<1> DEFINE c == call[t]
           kept == [i \in DOMAIN c.pkgs |-> c.pkgs[i].hit]
<1>1. IsCall(c) /\ Follows(c) /\ c.st = "done" /\ c.h = Len(c.hits)
  BY DEF PageInv, CallInv, Place
<1>2. DOMAIN c.pkgs = 1 .. Len(c.pkgs) /\ DOMAIN c.hits = 1 .. Len(c.hits)
  BY <1>1 DEF IsCall
<1> HIDE DEF c
<1>3. \A i, j \in DOMAIN kept : i < j => kept[i] < kept[j]
  BY <1>1, <1>2 DEF Follows
<1>4. Range(kept) = Kepts(c)
  BY <1>2 DEF Range, Kepts
<1>5. Numbered(c.hits) \cap Over(c) = Numbered(c.hits)
  BY <1>1, <1>2 DEF Over, Numbered
<1>6. Range(kept) = Numbered(c.hits) \ c.missed
  BY <1>1, <1>4, <1>5 DEF Follows
<1> QED
  BY <1>3, <1>6 DEF c

(* The invariant, read as an account of the memory.                         *)
LEMMA CallsLoseNothing == PageInv => NothingLost
<1> SUFFICES ASSUME PageInv, NEW t \in Threads
             PROVE  /\ Returned(t) \subseteq heap[t]
                    /\ call[t].st = "done" => heap[t] \subseteq Returned(t) \cup HalfLists(t)
  BY DEF NothingLost
<1> DEFINE c == call[t]
           r == route[t]
           s == req[t].st
           list == IF c.ret = "ok" /\ r = "page" THEN {<<"list", 0>>} ELSE {}
<1>1. Owns(r, c, s, heap[t])
  BY DEF PageInv, CallInv
<1>2. Returned(t) = list \cup Kept(c) /\ HalfLists(t) = Half(r, c)
  BY DEF Returned, HalfLists, Kept, Half
<1>3. list \subseteq heap[t]
  BY <1>1 DEF Owns, Paging
<1>4. c.st = "done" => Working(r, c, s) = list
  BY DEF Working
<1> QED
  BY <1>1, <1>2, <1>3, <1>4 DEF Owns

-----------------------------------------------------------------------------
(* choose_version_idx returns the first of the best versions that fit,       *)
(* whatever list it is given.                                               *)
THEOREM BestIsChosen == Spec => []BestVersion
<1>1. Init => IInv /\ PageInv /\ ChoiceInv
  BY InitIInv, InitPageInv, InitChoiceInv
<1>2. IInv /\ PageInv /\ ChoiceInv /\ [Next]_vars => (IInv /\ PageInv /\ ChoiceInv)'
  BY NextIInv, NextPageInv, NextChoiceInv
<1>3. ChoiceInv => BestVersion
  BY ChoiceIsBest
<1> QED
  BY <1>1, <1>2, <1>3, PTL DEF Spec

(* A page has one package for each hit that has an id and was answered, in   *)
(* the order of the hits, whatever failed on the way.                       *)
THEOREM PagesFollowHits == Spec => []PageFollowsHits
<1>1. Init => IInv /\ PageInv
  BY InitIInv, InitPageInv
<1>2. IInv /\ PageInv /\ [Next]_vars => (IInv /\ PageInv)'
  BY NextIInv, NextPageInv
<1>3. PageInv => PageFollowsHits
  BY PagesFollow
<1> QED
  BY <1>1, <1>2, <1>3, PTL DEF Spec

(* A call holds what it returns, and when it is over nothing else but the    *)
(* elements of lists the page builder dropped half full.                    *)
THEOREM CallsKeepAccount == Spec => []NothingLost
<1>1. Init => IInv /\ PageInv
  BY InitIInv, InitPageInv
<1>2. IInv /\ PageInv /\ [Next]_vars => (IInv /\ PageInv)'
  BY NextIInv, NextPageInv
<1>3. PageInv => NothingLost
  BY CallsLoseNothing
<1> QED
  BY <1>1, <1>2, <1>3, PTL DEF Spec
=============================================================================
