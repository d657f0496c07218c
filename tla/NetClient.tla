----------------------------- MODULE NetClient ------------------------------
(***************************************************************************)
(* libmcpkg/net/mcpkg_net_client.c: one client, used by several threads at *)
(* once.  A thread has at most one request open; libcurl calls back with   *)
(* the lines of the answer's header and the pieces of its body, and the    *)
(* callbacks of all requests write the three rate-limit fields of the      *)
(* client, with no lock.  Another thread reads them one after the other.   *)
(*                                                                         *)
(* Memory is the set of the objects each thread has allocated and not      *)
(* freed, a pair of a kind and a number.  Any allocation may fail.  An     *)
(* operator named Op_Slip is Op with a slip; the mutants of PROJECT.json   *)
(* put it in the place of Op.                                              *)
(***************************************************************************)
EXTENDS Naturals, Sequences, SequencesExt, FiniteSets

CONSTANTS
  Threads,
  MaxFaults,   \* bounds the allocations and transfers that fail
  MaxHeaders   \* bounds the headers set on the client

ASSUME NetAssumption == MaxFaults \in Nat /\ MaxHeaders \in Nat

VARIABLES
  headers,     \* how many default headers the client has
  rl,          \* field -> the number of the answer it came from, 0 if unknown
  req,         \* thread -> its request
  heap,        \* thread -> the objects it holds
  faults,      \* what has failed so far
  asked,       \* how many requests were made
  settled,     \* the answer that came in whole and alone, last of all, or 0
  reader       \* a call of get_ratelimit

shared == <<headers, rl, asked>>
netVars == <<shared, req, heap, faults, settled, reader>>

Fields == <<"limit", "remaining", "reset">>

(* of: what the request is for; it names the body it fills. *)
NoRequest == [st |-> "none", of |-> 0, lines |-> <<>>, alone |-> TRUE, tag |-> 0]

Body(t) == <<"body", req[t].of>>

(* How many default headers there are is the business of who makes it. *)
NetInit ==
  /\ rl = [f \in Range(Fields) |-> 0]
  /\ req = [t \in Threads |-> NoRequest]
  /\ heap = [t \in Threads |-> {}]
  /\ faults = 0 /\ asked = 0 /\ settled = 0
  /\ reader = [got |-> <<>>, steady |-> 0]

Fails == faults < MaxFaults /\ faults' = faults + 1
Works == UNCHANGED faults

-----------------------------------------------------------------------------
(* Before a request runs, it has the text of its query, a URL, a handle of  *)
(* libcurl and a copy of the default headers, in this order.                *)
SetUp(of) ==
  <<<<"query", of>>, <<"url", of>>, <<"handle", of>>>>
  \o (IF headers > 0 THEN <<<<"headers", of>>>> ELSE <<>>)

Opened(t) == {k \in heap[t] : k[1] \in {"query", "url", "handle", "headers"}}

(* The header list grows while nobody copies it; a copy is one step here.   *)
SetHeader ==
  /\ headers < MaxHeaders
  /\ headers' = headers + 1
  /\ UNCHANGED <<rl, asked, req, heap, faults, settled, reader>>

(* mcpkg_net_request up to curl_easy_perform. *)
RequestOpens(t, of) ==
  /\ Works
  /\ asked' = asked + 1
  /\ heap' = [heap EXCEPT ![t] = @ \cup Range(SetUp(of))]
  /\ \E lines \in {<<>>, Fields} :
       req' = [req EXCEPT ![t] = [st |-> "open", of |-> of, lines |-> lines,
                                  alone |-> TRUE, tag |-> asked + 1]]

(* What an early return frees when the k-th allocation fails: those before. *)
UndoSetUp(of, k) == {SetUp(of)[i] : i \in 1..(k - 1)}

RequestRefused(t, of) ==
  /\ Fails
  /\ \E k \in DOMAIN SetUp(of) :
       heap' = [heap EXCEPT ![t] =
                 (@ \cup {SetUp(of)[i] : i \in 1..(k - 1)}) \ UndoSetUp(of, k)]
  /\ req' = [req EXCEPT ![t] = [NoRequest EXCEPT !.st = "failed", !.of = of]]
  /\ UNCHANGED asked

Request(t, of) ==
  /\ req[t].st = "none"
  /\ RequestOpens(t, of) \/ RequestRefused(t, of)
  /\ UNCHANGED <<headers, rl, settled, reader>>

-----------------------------------------------------------------------------
(* Between the first and the last of the lines that carry a limit. *)
Midway(t) == req[t].st = "open" /\ Len(req[t].lines) \in 1..(Len(Fields) - 1)

(* curl_header_cb *)
Parse_Slip(f, tag) == IF f = "remaining" THEN rl ELSE [rl EXCEPT ![f] = tag]
Parse(f, tag) == [rl EXCEPT ![f] = tag]

HeaderLine(t) ==
  LET r == req[t]
      first == Len(r.lines) = Len(Fields)
      others == {u \in Threads \ {t} : Midway(u)}
      alone == (first \/ r.alone) /\ others = {} IN
  /\ r.st = "open" /\ r.lines # <<>>
  /\ rl' = Parse(Head(r.lines), r.tag)
  /\ req' = [u \in Threads |->
               IF u = t THEN [r EXCEPT !.lines = Tail(@), !.alone = alone]
               ELSE IF u \in others THEN [req[u] EXCEPT !.alone = FALSE] ELSE req[u]]
  /\ settled' = IF Len(r.lines) = 1 /\ alone THEN r.tag ELSE 0
  /\ UNCHANGED <<headers, asked, heap, faults, reader>>

(* curl_write_cb: the buffer grows, or the transfer ends with an error. *)
BodyPiece(t) ==
  /\ req[t].st = "open" /\ req[t].lines = <<>> /\ Body(t) \notin heap[t]
  /\ Works
  /\ heap' = [heap EXCEPT ![t] = @ \cup {Body(t)}]
  /\ UNCHANGED <<shared, req, settled, reader>>

Closed(t) == heap[t] \ Opened(t)

TransferFails(t) ==
  /\ req[t].st = "open"
  /\ Fails
  /\ heap' = [heap EXCEPT ![t] = Closed(t) \ {Body(t)}]
  /\ req' = [req EXCEPT ![t].st = "failed", ![t].lines = <<>>]
  /\ UNCHANGED <<shared, settled, reader>>

TransferEnds(t) ==
  /\ req[t].st = "open" /\ req[t].lines = <<>>
  /\ Works
  /\ heap' = [heap EXCEPT ![t] = Closed(t)]
  /\ req' = [req EXCEPT ![t].st = "ok"]
  /\ UNCHANGED <<shared, settled, reader>>

(* mcpkg_net_get_ratelimit, a field at a time. *)
ReadField ==
  /\ Len(reader.got) < Len(Fields)
  /\ reader' =
       [got |-> Append(reader.got, rl[Fields[Len(reader.got) + 1]]),
        steady |-> IF reader.got = <<>> \/ settled = reader.steady THEN settled ELSE 0]
  /\ UNCHANGED <<shared, req, heap, faults, settled>>

NetStep ==
  \E t \in Threads : HeaderLine(t) \/ BodyPiece(t) \/ TransferFails(t) \/ TransferEnds(t)

-----------------------------------------------------------------------------
(* get_ratelimit gives the three numbers of one answer when that answer     *)
(* came in whole with no other between its lines, and none has come since,  *)
(* up to the end of the call.  More is not promised: two answers that come  *)
(* in together leave fields of both.                                        *)
ReadIsSnapshot ==
  (Len(reader.got) = Len(Fields) /\ reader.steady # 0) =>
    Range(reader.got) = {reader.steady}
=============================================================================
