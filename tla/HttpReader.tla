----------------------------- MODULE HttpReader -----------------------------
(***************************************************************************)
(* HttpReaderService, the reader of a legacy (v5) source: the callback of  *)
(* the TCP persistent subscription awaits EventHandler.handle and answers  *)
(* the event when the promise settles. Several callbacks run at a time,    *)
(* one for each event the server has sent.                                 *)
(***************************************************************************)
EXTENDS ReaderProcess

CONSTANT AutoAck  \* the client library acknowledges when the callback returns

ASSUME HttpReaderAssumption == AutoAck \in BOOLEAN

(* Mutant: the catch block answers the event but the acknowledgement sits  *)
(* beside it, before the awaited promise settles.                          *)
AnswerEarly(h) ==
  Settle(EventOf(h), IF h \in rejected' THEN {"skip", "ack"} ELSE {"ack"})

(* Mutant: a rejected handling leaves the callback before any answer.      *)
AnswerOnSuccessOnly(h) ==
  Settle(EventOf(h), IF AutoAck THEN {"ack"} ELSE {})

(* What the callback has sent when it first awaits or returns: fail and    *)
(* acknowledge when the handling is rejected at once.                      *)
AnswerAtReceive(h) ==
  Settle(EventOf(h), (IF h \in rejected' THEN {"skip", "ack"} ELSE {})
                     \cup (IF AutoAck THEN {"ack"} ELSE {}))

(* The client library calls the callback with a delivered event.           *)
Receive(h) ==
  /\ Deliver(h)
  /\ Handle(h)
  /\ AnswerAtReceive(h)
  /\ UNCHANGED <<running, processVars>>

(* The validation lets the event through; nothing is answered yet.         *)
Validated(h) ==
  /\ ValidationPassed(h)
  /\ UNCHANGED <<subVars, processVars>>

(* The validation rejects the event: fail (skip), then acknowledge.        *)
Invalidated(h) ==
  /\ ValidationFailed(h)
  /\ Settle(EventOf(h), {"skip", "ack"})
  /\ UNCHANGED <<status, deliveries, connected, processVars>>

(* Mutant: an event that an earlier handling has written is not            *)
(* acknowledged again.                                                     *)
WrittenOnce(h) ==
  /\ AppendOk(h)
  /\ Settle(EventOf(h), IF \E g \in Handlings :
                              g # h /\ EventOf(g) = EventOf(h) /\ write[g] = "written"
                        THEN {} ELSE {"ack"})
  /\ UNCHANGED <<netVars, handlerVars, status, deliveries, connected, processVars>>

(* The write is confirmed: acknowledge.                                    *)
Written(h) ==
  /\ AppendOk(h)
  /\ Settle(EventOf(h), {"ack"})
  /\ UNCHANGED <<netVars, handlerVars, status, deliveries, connected, processVars>>

(* Mutant: the acknowledgement leaves before the hook can end the process. *)
WriteFailedAcked(h) ==
  /\ AppendError(h)
  /\ Settle(EventOf(h), {"ack"})
  /\ UNCHANGED <<reported, handlerVars, status, deliveries, connected, processVars>>

(* The write failed and the hook was called. If the process survives the   *)
(* hook, writeEvent resolves and the event is acknowledged.                *)
WriteFailed(h) ==
  /\ AppendError(h)
  /\ Settle(EventOf(h), IF running' THEN {"ack"} ELSE {})
  /\ UNCHANGED <<reported, handlerVars, status, deliveries, connected, processVars>>

Callback(h) ==
  \/ Receive(h)
  \/ Validated(h)
  \/ Invalidated(h)
  \/ Written(h)
  \/ WriteFailed(h)

HttpNext == (\E h \in Handlings : Callback(h)) \/ Surroundings

HttpSpec == Init /\ [][HttpNext]_vars

-----------------------------------------------------------------------------
(* The reader seen from outside.                                           *)
Promise == INSTANCE ReliableCopy
             WITH copied <- dest, released <- LetGo, abandoned <- Parked

(* With the default net the reader, the handler and the driver together    *)
(* copy reliably: every step of theirs copies, releases or abandons one    *)
(* event as the abstract specification allows, or changes none of the      *)
(* three.                                                                  *)
CopiesReliably == Promise!CopySpec

(* An event the group lets go (acknowledged or skipped: it is never sent   *)
(* again) is in the destination if it is valid, whatever timeouts, deaths, *)
(* late appends and redeliveries happened. A custom net that lets the      *)
(* process live was told of the exceptions.                                *)
LetGoIsCopied ==
  \A e \in LetGo \cap ValidEvents :
    e \in dest \/ (~KillsProcess /\ e \in alerted)

(* An event the group lets go, be it valid or not, is in the destination,  *)
(* or one of the hooks was called for it: whatever dies, times out or is   *)
(* sent again between the validation, the hook, the write and the two      *)
(* answers, nothing is turned down or given up without a word to the net.  *)
(* This is the interface's "triggered after the detection of a non valid   *)
(* event", with the exception that the code makes: an event that cannot be *)
(* read is skipped in silence (RejectUnreadable).                          *)
NothingGoesSilently ==
  \A e \in LetGo :
    Verdict[e] # "unreadable" => e \in dest \cup alerted \cup reported

(* With a buffer of one event the copies keep the order of the source: an  *)
(* event is copied only when the valid events before it are, or the server *)
(* gave up on them.                                                        *)
InOrder ==
  \A e, f \in ValidEvents :
    e < f /\ f \in dest => e \in dest \/ status[e] = "parked"

(* Somebody answers for e: an answer is on its way, or the handling of its *)
(* last delivery is still at work and will end in one.                     *)
InHand(e) ==
  \/ \E answer \in Answers : <<e, answer>> \in settlements
  \/ <<e, deliveries[e]>> \in checking
  \/ write[<<e, deliveries[e]>>] = "pending"

(* An event the server waits for is in hand as long as the process lives,  *)
(* whatever was delivered twice, came late or was rejected: no delivery is *)
(* left without an answer to block the buffer for good.                    *)
InFlightIsInHand == running => \A e \in InFlight : InHand(e)

(* Every valid event ends in the destination or is parked by the server,   *)
(* and an event that is rejected does not hold up those behind it.         *)
EventuallyCopied ==
  \A e \in ValidEvents : <>(e \in dest \/ status[e] = "parked")
=============================================================================
