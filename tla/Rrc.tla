-------------------------------- MODULE Rrc --------------------------------
(***************************************************************************)
(* rrc() of MAC/mac_msg_parsing.c: what the base station answers to a      *)
(* message of a phone.  It keeps no state of the dialogue: the answer      *)
(* follows from the message, and a request for a connection resets the     *)
(* state of RLC.                                                           *)
(*                                                                         *)
(* A message is a sequence of units [kind |-> "msg", type, id, k]; the     *)
(* code takes the type from the first bytes, k is the position in the      *)
(* message and id tells messages apart.  Answers carry the id of what they *)
(* answer, in the contention resolution because the code copies it there,  *)
(* in the others as a history.                                             *)
(***************************************************************************)
EXTENDS Naturals, Sequences

CONSTANT MaxEthPayload     (* MAX_ETH_PAYLOAD_SIZE, 2034                     *)

ASSUME RrcAssumption == MaxEthPayload \in Nat

----------------------------------------------------------------------------
\* What the first unit says.  In a message without its beginning, units in
\* the middle are taken for the type; here they are none of the known ones.
typeOf(bytes) ==
  IF Head(bytes).kind = "msg" /\ Head(bytes).k = 1 THEN Head(bytes).type ELSE "unknown"

answer(lcid, type, id) ==
  [lcid |-> lcid, bytes |-> <<[kind |-> "msg", type |-> type, id |-> id, k |-> 1]>>]

\* The dialogue on the signalling channels: what each message is answered
\* with, on channel 1.
NextCommand ==
  [setupComplete |-> "identityRequest",
   identityResponse |-> "authenticationRequest",
   authenticationResponse |-> "nasSecurityCommand",
   nasSecurityComplete |-> "rrcSecurityCommand",
   rrcSecurityComplete |-> "reconfiguration"]

\* Contention resolution echoes the request.
rrcRequest(bytes) ==
  <<[lcid |-> 28, bytes |-> bytes],
    answer(0, "setup", Head(bytes).id)>>

rrcSignalling(lcid, bytes) ==
  LET type == typeOf(bytes)
      id == Head(bytes).id
  IN  CASE type \in DOMAIN NextCommand -> <<answer(1, NextCommand[type], id)>>
        [] type = "detachRequest" -> <<answer(lcid, "detachAccept", id),
                                       answer(1, "release", id)>>
        [] OTHER -> <<>>   \* completes, rejects and the unknown are counted

\* Messages of length 0 are ignored.
rrcAnswers(lcid, bytes) ==
  IF bytes = <<>> THEN <<>>
  ELSE CASE lcid = 0 -> rrcRequest(bytes)
         [] lcid \in {1, 2} -> rrcSignalling(lcid, bytes)
         [] OTHER -> <<>>

rrcResets(lcid, bytes) == lcid = 0 /\ bytes # <<>>

\* A packet that goes to the network: "do not deliver too big packets".
toNetwork(lcid, bytes) ==
  lcid \notin 0 .. 2 /\ bytes # <<>> /\ Len(bytes) < MaxEthPayload
=============================================================================
