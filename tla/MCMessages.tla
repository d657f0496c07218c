----------------------------- MODULE MCMessages -----------------------------
(***************************************************************************)
(* The two users of the message format for TLC.  A behaviour is the call   *)
(* of one unpack function, with the inputs of MCMsgPack (kinds = {}), or a *)
(* program that works with one kind of object of the registry.             *)
(***************************************************************************)
EXTENDS MCMsgPack, MCRegistry

AnyInput == [type |-> "pkg.digest", data |-> Garbage, from |-> Null]

MessagesInit ==
  /\ UnpackInit /\ Init
  /\ kinds = {} \/ input = AnyInput

MessagesNext ==
  \/ kinds = {} /\ UnpackNext /\ UNCHANGED vars
  \/ kinds # {} /\ Next /\ UNCHANGED unpackVars

MessagesSpec == MessagesInit /\ [][MessagesNext]_<<unpackVars, vars>>
=============================================================================
