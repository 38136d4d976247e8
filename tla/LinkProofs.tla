---------------------------- MODULE LinkProofs ----------------------------
(***************************************************************************)
(* Theorems about one link and about what all links share: ConnLink, for   *)
(* every bound and every set of configurations, and Connections, for any   *)
(* number of connections, addresses and records.                           *)
(***************************************************************************)
EXTENDS ConnLink, Connections, TLAPS

(* HandleTLS runs only after the ClientHello was peeked: it is still there. *)
HelloWaiting == lr = "mitm" => lread < csent

(* A body left unread, and a write, belong to a message that was read. *)
BodyHasHead == lrest => lread # 0
AfterReads  == lr = "after" => lread # 0
ReadsHead   == rl = "read" => ~rrest

Heads       == BodyHasHead /\ AfterReads /\ ReadsHead

TypeInv == TypeOK /\ HelloWaiting /\ Heads

USE DEF DoneSniff

LEMMA InitType == Init => TypeInv
<1> SUFFICES ASSUME Init PROVE TypeInv
  OBVIOUS
<1> USE BoundsAssumption DEF Init
<1>1. kind \in [1..MaxC -> CKinds] /\ fate \in [1..MaxC -> Fates]
  BY DEF CKinds, Fates
<1>2. skind \in [1..MaxS -> SKinds] /\ sfate \in [1..MaxS -> SFates]
  BY DEF SKinds, SFates
<1>3. lr \in LRStates /\ rl \in RLStates
  BY DEF LRStates, RLStates
<1>4. cached \in BOOLEAN /\ pending \in {0, 1} /\ rconn \in {"none", "tcp", "tls"}
  OBVIOUS
<1>5. HelloWaiting /\ Heads
  BY DEF Heads, HelloWaiting, BodyHasHead, AfterReads, ReadsHead
<1>6. csent \in 0..MaxC /\ lread \in 0..csent /\ ssent \in 0..MaxS /\ rread \in 0..ssent
  OBVIOUS
<1> QED
  BY <1>1, <1>2, <1>3, <1>4, <1>5, <1>6
  DEF TypeInv, TypeOK, Protocols, Ends

(* The client-to-server side keeps the types. *)
LEMMA LRTypeOK == TypeInv /\ LRNext => TypeOK' /\ HelloWaiting'
<1> SUFFICES ASSUME TypeInv, LRNext PROVE TypeOK' /\ HelloWaiting'
  OBVIOUS
<1> USE BoundsAssumption, SetupsAssumption
    DEF TypeInv, TypeOK, HelloWaiting, shared, client, server, ends, rvars,
        LRStates, Protocols, Fates, Halves
<1>1. CASE LRSniffEOF
  BY <1>1 DEF LRSniffEOF
<1>2. CASE LRSniffTLS
  BY <1>2 DEF LRSniffTLS, Peekable, Unread
<1>3. CASE LRSniffRaw
  BY <1>3 DEF LRSniffRaw
<1>4. CASE LRSniffHTTP
  BY <1>4 DEF LRSniffHTTP
<1>5. CASE LRMitmClient
  <2>1. lread < csent
    BY <1>5 DEF LRMitmClient
  <2>2. lread' \in 0..csent' /\ csent' \in 0..MaxC
    BY <1>5, <2>1 DEF LRMitmClient, Consume
  <2>3. fate' \in [1..MaxC -> Fates]
    BY <1>5, <2>1 DEF LRMitmClient, Consume
  <2>4. lr' \in LRStates /\ HelloWaiting'
    BY <1>5 DEF LRMitmClient, Consume
  <2> QED BY <1>5, <2>2, <2>3, <2>4 DEF LRMitmClient
<1>6. CASE LRMitmServer
  <2>1. rread' \in 0..ssent' /\ sfate' \in [1..MaxS -> SFates] /\ ssent' \in 0..MaxS
    BY <1>6 DEF LRMitmServer, RConsume, RUnread, SFates
  <2>2. lr' \in LRStates /\ HelloWaiting' /\ l' \subseteq Halves /\ mitmed' \in BOOLEAN
    BY <1>6 DEF LRMitmServer
  <2> QED BY <1>6, <2>1, <2>2 DEF LRMitmServer
<1>7. CASE LRLoopEOF
  BY <1>7 DEF LRLoopEOF
<1>8. CASE LRLoopNotHTTP
  BY <1>8 DEF LRLoopNotHTTP
<1>9. CASE LRMalformed
  BY <1>9 DEF LRMalformed, ReadingRequest, Peekable, Unread, Consume
<1>10. CASE LRForward
  <2>1. lread < csent
    BY <1>10 DEF LRForward, ReadingRequest, Peekable, Unread
  <2>2. Consume("forwarded") \/ Consume("lost")
    BY <1>10 DEF LRForward
  <2>3. /\ fate' \in [1..MaxC -> Fates]
        /\ lread' \in 0..csent' /\ csent' \in 0..MaxC
    <3>1. fate' \in [1..MaxC -> Fates] /\ lread' = lread + 1
      BY <2>2 DEF Consume
    <3>2. csent' = csent
      BY <1>10 DEF ReadingRequest, LRForward, client
    <3> QED BY <2>1, <3>1, <3>2
  <2>7. late' = late \/ NoteLate(lread + 1)
    BY <1>10 DEF LRForward
  <2>8. late' \subseteq 1..MaxC
    <3>1. late' \in {late, late \cup {lread + 1}}
      BY <2>7 DEF NoteLate
    <3>2. lread + 1 \in 1..MaxC
      BY <2>1
    <3> QED BY <3>1, <3>2
  <2>4. lr' \in LRStates /\ lr' # "mitm" /\ late' \subseteq 1..MaxC
    BY <1>10, <2>8 DEF LRForward
  <2>5. skipped' \in BOOLEAN /\ cached' \in BOOLEAN
    BY <1>10 DEF LRForward
  <2> QED BY <1>10, <2>3, <2>4, <2>5 DEF LRForward, ReadingRequest
<1>11. CASE LRSwallow
  BY <1>11 DEF LRSwallow, ReadingRequest, Peekable, Unread, Consume
<1>12. CASE LRReject
  BY <1>12 DEF LRReject, ReadingRequest, Peekable, Unread, Consume
<1>13. CASE LRAfterWrite
  BY <1>13 DEF LRAfterWrite
<1>14. CASE LRReturn
  BY <1>14 DEF LRReturn, CloseLR
<1>15. CASE LRCopy
  <2>1. lread' \in 0..csent' /\ fate' \in [1..MaxC -> Fates] /\ csent' \in 0..MaxC
    <3>0. csent' = csent
      BY <1>15 DEF LRCopy
    <3>1. CASE lrest
      <4>1. fate' = [fate EXCEPT ![lread] = "leaked"] /\ lread' = lread
        BY <1>15, <3>1 DEF LRCopy, CopyNext
      <4> QED BY <3>0, <4>1
    <3>2. CASE ~lrest
      <4>1. lread < csent /\ lread' = lread + 1
            /\ \E f \in Fates : fate' = [fate EXCEPT ![lread + 1] = f]
        BY <1>15, <3>2 DEF LRCopy, CopyNext, Consume, Unread
      <4> QED BY <3>0, <4>1
    <3> QED BY <3>1, <3>2
  <2>2. lr' \in LRStates /\ lr' # "mitm" /\ l' \subseteq Halves /\ r' \subseteq Halves
    BY <1>15 DEF LRCopy, CloseLR
  <2>3. late' \subseteq 1..MaxC
    <3>1. CASE lrest
      <4>1. late' \in {late, late \cup {lread}}
        BY <1>15, <3>1 DEF LRCopy, NoteLate
      <4>2. lread \in 1..MaxC
        BY <3>1 DEF Heads, BodyHasHead
      <4> QED BY <4>1, <4>2
    <3>2. CASE ~lrest
      <4>1. late' \in {late, late \cup {lread + 1}}
        BY <1>15, <3>2 DEF LRCopy, NoteLate
      <4>2. lread + 1 \in 1..MaxC
        BY <1>15, <3>2 DEF LRCopy, Unread
      <4> QED BY <4>1, <4>2
    <3> QED BY <3>1, <3>2
  <2> QED BY <1>15, <2>1, <2>2, <2>3 DEF LRCopy
<1>16. CASE LRCopyEnd
  BY <1>16 DEF LRCopyEnd, CloseLR
<1>17. CASE LRServed
  BY <1>17 DEF LRServed
<1> QED
  BY <1>1, <1>2, <1>3, <1>4, <1>5, <1>6, <1>7, <1>8, <1>9, <1>10, <1>11, <1>12,
     <1>13, <1>14, <1>15, <1>16, <1>17 DEF LRNext

(* So does the server-to-client side. *)
LEMMA RLTypeOK == TypeInv /\ RLNext => TypeOK' /\ HelloWaiting'
<1> SUFFICES ASSUME TypeInv, RLNext PROVE TypeOK' /\ HelloWaiting'
  OBVIOUS
<1> USE BoundsAssumption
    DEF TypeInv, TypeOK, HelloWaiting, shared, client, server, ends, lvars,
        RLStates, SFates, Halves
<1>1. CASE RLSniffDone
  BY <1>1 DEF RLSniffDone
<1>2. CASE RLLoopEnd
  BY <1>2 DEF RLLoopEnd
<1>3. CASE RLMalformed
  BY <1>3 DEF RLMalformed, ReadingResponse, RUnread, RConsume
<1>4. CASE RLForward
  <2>1. rread < ssent
    BY <1>4 DEF RLForward, ReadingResponse, RUnread
  <2>2. RConsume("forwarded") \/ RConsume("lost")
    BY <1>4 DEF RLForward
  <2>3. sfate' \in [1..MaxS -> SFates] /\ rread' = rread + 1
    BY <2>2 DEF RConsume
  <2>4. rl' \in RLStates /\ ssent' = ssent
    BY <1>4 DEF RLForward, ReadingResponse, server
  <2> QED BY <1>4, <2>1, <2>3, <2>4 DEF RLForward, ReadingResponse
<1>5. CASE RLDrop
  BY <1>5 DEF RLDrop, ReadingResponse, RUnread, RConsume
<1>6. CASE RLReject
  BY <1>6 DEF RLReject, ReadingResponse, RUnread, RConsume
<1>7. CASE RLReturn
  BY <1>7 DEF RLReturn, CloseRL
<1>8. CASE RLCopy
  <2>1. rread' \in 0..ssent' /\ sfate' \in [1..MaxS -> SFates] /\ ssent' \in 0..MaxS
    <3>1. CASE rrest
      BY <1>8, <3>1 DEF RLCopy, RCopyNext
    <3>2. CASE ~rrest
      BY <1>8, <3>2 DEF RLCopy, RCopyNext, RConsume, RUnread
    <3> QED BY <3>1, <3>2
  <2>2. rl' \in RLStates /\ l' \subseteq Halves /\ r' \subseteq Halves
    BY <1>8 DEF RLCopy, CloseRL
  <2> QED BY <1>8, <2>1, <2>2 DEF RLCopy
<1>9. CASE RLCopyEnd
  BY <1>9 DEF RLCopyEnd, CloseRL
<1>10. CASE RLSniffResponse
  BY <1>10 DEF RLSniffResponse
<1> QED
  BY <1>1, <1>2, <1>3, <1>4, <1>5, <1>6, <1>7, <1>8, <1>9, <1>10 DEF RLNext

(* The peers only add messages of the kinds the streams hold. *)
LEMMA PeersTypeOK == TypeInv /\ Peers => TypeOK' /\ HelloWaiting'
<1> SUFFICES ASSUME TypeInv, Peers PROVE TypeOK' /\ HelloWaiting'
  OBVIOUS
<1> USE BoundsAssumption
    DEF TypeInv, TypeOK, HelloWaiting, Same, shared, client, server, ends, lvars, rvars
<1>1. CASE ClientSend
  <2>1. ClientMay \subseteq CKinds
    BY DEF ClientMay, CKinds, Requests
  <2>2. kind' \in [1..MaxC -> CKinds]
    BY <1>1, <2>1 DEF ClientSend
  <2>3. csent' \in 0..MaxC /\ lread \in 0..csent' /\ csent' > csent
    BY <1>1 DEF ClientSend
  <2> QED BY <1>1, <2>2, <2>3 DEF ClientSend
<1>2. CASE ServerSend
  <2>1. ServerMay \subseteq SKinds
    BY DEF ServerMay, SKinds, Responses
  <2>2. skind' \in [1..MaxS -> SKinds]
    BY <1>2, <2>1 DEF ServerSend
  <2>3. ssent' \in 0..MaxS /\ rread \in 0..ssent'
    BY <1>2 DEF ServerSend
  <2> QED BY <1>2, <2>2, <2>3 DEF ServerSend
<1>3. CASE ClientEnd
  BY <1>3 DEF ClientEnd, Ends
<1>4. CASE ServerEnd
  BY <1>4 DEF ServerEnd, Ends
<1> QED
  BY <1>1, <1>2, <1>3, <1>4 DEF Peers

(* A body left unread, and a request being written, were read before. *)
LEMMA HeadsStep == TypeInv /\ Next => Heads'
<1> SUFFICES ASSUME TypeInv, Next PROVE Heads'
  OBVIOUS
<1> USE DEF TypeInv, TypeOK, Heads, BodyHasHead, AfterReads, ReadsHead
<1>1. CASE LRForward \/ LRSwallow
  <2>1. lread' = lread + 1 /\ UNCHANGED <<rl, rrest>>
    BY <1>1 DEF LRForward, LRSwallow, ReadingRequest, Consume, rvars
  <2> QED BY <2>1
<1>2. CASE LRMitmClient \/ LRMalformed \/ LRReject
  BY <1>2 DEF LRMitmClient, LRMalformed, LRReject, ReadingRequest, Consume, rvars
<1>3. CASE LRNext /\ ~LRForward /\ ~LRSwallow /\ ~LRMitmClient /\ ~LRMalformed /\ ~LRReject /\ ~LRCopy
  <2>1. UNCHANGED <<lread, lrest, rl, rrest>> /\ lr' # "after"
    BY <1>3 DEF LRNext, LRSniffEOF, LRSniffTLS, LRSniffRaw, LRSniffHTTP, LRMitmServer, LRLoopEOF,
       LRLoopNotHTTP, LRAfterWrite, LRReturn, LRCopyEnd, LRServed, rvars
  <2> QED BY <2>1
<1>4. CASE LRCopy
  BY <1>4 DEF LRCopy, rvars
<1>5. CASE RLNext
  <2>1. UNCHANGED <<lr, lread, lrest>>
    BY <1>5 DEF RLNext, RLSniffDone, RLLoopEnd, RLSniffResponse, RLMalformed, RLForward, RLDrop, RLReject,
       RLReturn, RLCopy, RLCopyEnd, ReadingResponse, lvars
  <2>2. ReadsHead'
    BY <1>5 DEF RLNext, RLSniffDone, RLLoopEnd, RLSniffResponse, RLMalformed, RLForward, RLDrop, RLReject,
       RLReturn, RLCopy, RLCopyEnd, ReadingResponse
  <2> QED BY <2>1, <2>2
<1>6. CASE Peers
  BY <1>6 DEF Peers, ClientSend, ServerSend, ClientEnd, ServerEnd, Same, lvars, rvars
<1> QED
  BY <1>1, <1>2, <1>3, <1>4, <1>5, <1>6 DEF Next

LEMMA LRType == TypeInv /\ LRNext => TypeInv'
BY LRTypeOK, HeadsStep DEF TypeInv, Next

LEMMA RLType == TypeInv /\ RLNext => TypeInv'
BY RLTypeOK, HeadsStep DEF TypeInv, Next

LEMMA PeersType == TypeInv /\ Peers => TypeInv'
BY PeersTypeOK, HeadsStep DEF TypeInv, Next

LEMMA StutterType == TypeInv /\ UNCHANGED vars => TypeInv'
BY DEF TypeInv, TypeOK, HelloWaiting, Heads, BodyHasHead, AfterReads, ReadsHead, vars

LEMMA TypeInvariant == Spec => []TypeInv
<1>1. TypeInv /\ [Next]_vars => TypeInv'
  BY LRType, RLType, PeersType, StutterType DEF Next
<1> QED
  BY <1>1, InitType, PTL DEF Spec

(* Every variable keeps its type, and no read position passes what was sent. *)
THEOREM TypeCorrect == Spec => []TypeOK
<1>1. TypeInv => TypeOK
  BY DEF TypeInv
<1> QED
  BY <1>1, TypeInvariant, PTL

-----------------------------------------------------------------------------
(* Nothing ahead of the read position has a fate yet, and a rejected request
   is the last one read: Skipped keeps the byte copy from starting.        *)
RejectInv ==
    /\ \A i \in 1..MaxC : i > lread => fate[i] = "sent"
    /\ \A i \in 1..MaxC : fate[i] = "rejected" =>
          i = lread /\ skipped /\ lr \in {"ret", "served", "done"}

LEMMA RejectStep == TypeInv /\ RejectInv /\ [Next]_vars => RejectInv'
<1> SUFFICES ASSUME TypeInv, RejectInv, [Next]_vars PROVE RejectInv'
  OBVIOUS
<1> USE BoundsAssumption DEF RejectInv, TypeInv, TypeOK
<1>1. CASE LRSniffEOF \/ LRSniffTLS \/ LRSniffRaw \/ LRSniffHTTP
  BY <1>1 DEF LRSniffEOF, LRSniffTLS, LRSniffRaw, LRSniffHTTP, shared
<1>2. CASE LRLoopEOF \/ LRLoopNotHTTP
  BY <1>2 DEF LRLoopEOF, LRLoopNotHTTP, shared
<1>3. CASE LRMitmClient
  BY <1>3 DEF LRMitmClient, Consume, shared, HelloWaiting
<1>4. CASE LRMitmServer
  BY <1>4 DEF LRMitmServer
<1>5. CASE LRMalformed
  BY <1>5 DEF LRMalformed, ReadingRequest, Consume
<1>6. CASE LRForward
  <2>1. lr = "loop" /\ lread' = lread + 1
    BY <1>6 DEF LRForward, ReadingRequest, Consume
  <2>2. \E f \in {"forwarded", "lost"} : fate' = [fate EXCEPT ![lread + 1] = f]
    BY <1>6 DEF LRForward, Consume
  <2> QED BY <2>1, <2>2
<1>7. CASE LRSwallow
  BY <1>7 DEF LRSwallow, ReadingRequest, Consume
<1>8. CASE LRReject
  BY <1>8 DEF LRReject, ReadingRequest, Consume
<1>9. CASE LRAfterWrite
  BY <1>9 DEF LRAfterWrite
<1>10. CASE LRReturn
  BY <1>10 DEF LRReturn
<1>11. CASE LRCopy
  <2>1. lr = "raw" /\ UNCHANGED skipped
    BY <1>11 DEF LRCopy, shared
  <2>2. \A i \in 1..MaxC : fate[i] # "rejected"
    BY <2>1
  <2>3. \/ lread' = lread /\ fate' = [fate EXCEPT ![lread] = "leaked"]
        \/ lread' = lread + 1
           /\ \E f \in {"raw", "lost"} : fate' = [fate EXCEPT ![lread + 1] = f]
    BY <1>11 DEF LRCopy, CopyNext, Consume
  <2>4. \A i \in 1..MaxC : fate'[i] # "rejected"
    BY <2>2, <2>3
  <2>5. \A i \in 1..MaxC : i > lread' => fate'[i] = "sent"
    <3>1. CASE lread' = lread /\ fate' = [fate EXCEPT ![lread] = "leaked"]
      BY <3>1
    <3>2. CASE lread' = lread + 1 /\ \E f \in {"raw", "lost"} : fate' = [fate EXCEPT ![lread + 1] = f]
      BY <3>2
    <3> QED BY <2>3, <3>1, <3>2
  <2> QED BY <2>4, <2>5
<1>12. CASE LRCopyEnd
  BY <1>12 DEF LRCopyEnd, shared
<1>13. CASE LRServed
  BY <1>13 DEF LRServed, shared
<1>14. CASE RLNext
  <2>1. UNCHANGED <<lr, fate, lread>> /\ (skipped => skipped')
    BY <1>14 DEF RLNext, RLSniffDone, RLLoopEnd, RLSniffResponse, RLMalformed, RLForward, RLDrop, RLReject,
       RLReturn, RLCopy, RLCopyEnd, ReadingResponse, lvars, shared
  <2> QED BY <2>1
<1>15. CASE Peers
  BY <1>15 DEF Peers, ClientSend, ServerSend, ClientEnd, ServerEnd, Same, lvars, shared
<1>16. CASE UNCHANGED vars
  BY <1>16 DEF vars
<1> QED
  BY <1>1, <1>2, <1>3, <1>4, <1>5, <1>6, <1>7, <1>8, <1>9, <1>10, <1>11, <1>12, <1>13,
     <1>14, <1>15, <1>16 DEF Next, LRNext

(* After a rejected request, nothing the client wrote is read or forwarded. *)
THEOREM RejectIsFinal == Spec => []NoTrafficAfterReject
<1>1. Init => RejectInv
  BY BoundsAssumption DEF Init, RejectInv
<1>2. TypeInv /\ RejectInv => NoTrafficAfterReject
  BY BoundsAssumption DEF RejectInv, NoTrafficAfterReject, TypeInv, TypeOK
<1> QED
  BY <1>1, <1>2, RejectStep, TypeInvariant, PTL DEF Spec


-----------------------------------------------------------------------------
(* SniffFirst is inductive: SniffDone is only ever counted down, and every
   step of the server-to-client side but the wait needs it down.           *)
LEMMA SniffStep == TypeInv /\ SniffFirst /\ [Next]_vars => SniffFirst'
<1> SUFFICES ASSUME TypeInv, SniffFirst, [Next]_vars, pending' = 1
             PROVE /\ rl' = "wait" /\ rconn' = "none"
                   /\ \A j \in 1..MaxS : sfate'[j] \in {"sent", "mitm", "bad"}
  BY DEF SniffFirst
<1> USE BoundsAssumption DEF SniffFirst, TypeInv, TypeOK
<1>1. CASE LRMitmServer
  <2>1. UNCHANGED <<rl, rconn, pending>>
    BY <1>1 DEF LRMitmServer
  <2>2. sfate' = sfate \/ \E f \in {"mitm", "bad"} : sfate' = [sfate EXCEPT ![rread + 1] = f]
    BY <1>1 DEF LRMitmServer, RConsume
  <2> QED BY <2>1, <2>2
<1>2. CASE LRNext /\ ~LRMitmServer
  <2>1. UNCHANGED <<rl, rconn, sfate>>
    BY <1>2 DEF LRNext, LRSniffEOF, LRSniffTLS, LRSniffRaw, LRSniffHTTP, LRMitmClient,
       LRLoopEOF, LRLoopNotHTTP, LRMalformed, LRForward, LRSwallow, LRReject, LRAfterWrite,
       LRReturn, LRCopy, LRCopyEnd, LRServed, ReadingRequest, rvars
  <2>2. pending = 1
    BY <1>2 DEF LRNext, LRSniffEOF, LRSniffTLS, LRSniffRaw, LRSniffHTTP, LRMitmClient,
       LRLoopEOF, LRLoopNotHTTP, LRMalformed, LRForward, LRSwallow, LRReject, LRAfterWrite,
       LRReturn, LRCopy, LRCopyEnd, LRServed, ReadingRequest, shared
  <2> QED BY <2>1, <2>2
<1>3. CASE RLNext
  <2>1. pending = 1
    BY <1>3 DEF RLNext, RLSniffDone, RLLoopEnd, RLSniffResponse, RLMalformed, RLForward, RLDrop, RLReject,
       RLReturn, RLCopy, RLCopyEnd, ReadingResponse, shared
  <2>2. rl # "wait" \/ pending = 0
    BY <1>3 DEF RLNext, RLSniffDone, RLLoopEnd, RLSniffResponse, RLMalformed, RLForward, RLDrop, RLReject,
       RLReturn, RLCopy, RLCopyEnd, ReadingResponse
  <2> QED BY <2>1, <2>2
<1>4. CASE Peers
  BY <1>4 DEF Peers, ClientSend, ServerSend, ClientEnd, ServerEnd, Same, rvars, shared
<1>5. CASE UNCHANGED vars
  BY <1>5 DEF vars
<1> QED
  BY <1>1, <1>2, <1>3, <1>4, <1>5 DEF Next

(* With response rules, nothing of R is relayed before the first message of
   the client is understood.                                               *)
THEOREM SniffComesFirst == Spec => []SniffFirst
<1>1. Init => SniffFirst
  BY BoundsAssumption DEF Init, SniffFirst
<1> QED
  BY <1>1, SniffStep, TypeInvariant, PTL DEF Spec

-----------------------------------------------------------------------------
(* A connection is served under one configuration. *)
LEMMA SetupFixed == [Next]_vars => setup' = setup
<1>1. LRNext => setup' = setup
  BY DEF LRNext, LRSniffEOF, LRSniffTLS, LRSniffRaw, LRSniffHTTP, LRMitmClient,
     LRMitmServer, LRLoopEOF, LRLoopNotHTTP, LRMalformed, LRForward, LRSwallow, LRReject,
     LRAfterWrite, LRReturn, LRCopy, LRCopyEnd, LRServed, ReadingRequest
<1>2. RLNext => setup' = setup
  BY DEF RLNext, RLSniffDone, RLLoopEnd, RLSniffResponse, RLMalformed, RLForward, RLDrop, RLReject, RLReturn,
     RLCopy, RLCopyEnd, ReadingResponse
<1>3. Peers => setup' = setup
  BY DEF Peers, ClientSend, ServerSend, ClientEnd, ServerEnd, Same
<1> QED
  BY <1>1, <1>2, <1>3 DEF Next, vars

(* Response rules keep the handshake safe: the goroutine that would steal
   from it waits on SniffDone as long as HandleTLS may run, and then reads
   the connection HandleTLS installed.                                     *)
MitmInv ==
    setup.mode = "RULE_RESP" =>
        /\ lr \in {"sniff", "mitm", "mitmServer"} => pending = 1
        /\ mitmed => rconn # "tcp"
        /\ HandshakeUndisturbed

LEMMA MitmStep == TypeInv /\ SniffFirst /\ MitmInv /\ [Next]_vars => MitmInv'
<1> SUFFICES ASSUME TypeInv, SniffFirst, MitmInv, [Next]_vars, setup.mode = "RULE_RESP"
             PROVE MitmInv'
  BY SetupFixed DEF MitmInv
<1> USE BoundsAssumption DEF MitmInv, TypeInv, TypeOK, HandshakeUndisturbed
<1>1. CASE LRMitmServer
  <2>1. pending = 1 /\ rconn = "none" /\ UNCHANGED <<rconn, pending>>
    BY <1>1 DEF LRMitmServer, SniffFirst
  <2>2. sfate' = sfate \/ \E f \in {"mitm", "bad"} : sfate' = [sfate EXCEPT ![rread + 1] = f]
    BY <1>1 DEF LRMitmServer, RConsume
  <2>3. HandshakeUndisturbed'
    BY <2>2
  <2> QED BY <2>1, <2>3
<1>2. CASE LRNext /\ ~LRMitmServer
  <2>1. UNCHANGED <<rconn, sfate, mitmed>>
    BY <1>2 DEF LRNext, LRSniffEOF, LRSniffTLS, LRSniffRaw, LRSniffHTTP, LRMitmClient,
       LRLoopEOF, LRLoopNotHTTP, LRMalformed, LRForward, LRSwallow, LRReject, LRAfterWrite,
       LRReturn, LRCopy, LRCopyEnd, LRServed, ReadingRequest, rvars, shared
  <2>2. lr' \in {"sniff", "mitm", "mitmServer"} => pending' = pending /\ pending = 1
    BY <1>2 DEF LRNext, LRSniffEOF, LRSniffTLS, LRSniffRaw, LRSniffHTTP, LRMitmClient,
       LRLoopEOF, LRLoopNotHTTP, LRMalformed, LRForward, LRSwallow, LRReject, LRAfterWrite,
       LRReturn, LRCopy, LRCopyEnd, LRServed, ReadingRequest, shared
  <2> QED BY <2>1, <2>2
<1>3. CASE RLNext
  <2>1. UNCHANGED <<lr, pending, mitmed>>
    BY <1>3 DEF RLNext, RLSniffDone, RLLoopEnd, RLSniffResponse, RLMalformed, RLForward, RLDrop, RLReject,
       RLReturn, RLCopy, RLCopyEnd, ReadingResponse, lvars, shared
  <2>2. rconn' = rconn \/ rconn' = (IF mitmed THEN "tls" ELSE "tcp")
    BY <1>3 DEF RLNext, RLSniffDone, RLLoopEnd, RLSniffResponse, RLMalformed, RLForward, RLDrop, RLReject,
       RLReturn, RLCopy, RLCopyEnd, ReadingResponse
  <2>3. RLCopy => ~Intruding
    BY DEF RLCopy, Intruding, SniffFirst
  <2>4. \/ sfate' = sfate
        \/ \E j \in Nat, f \in SFates \ {"stolen"} : sfate' = [sfate EXCEPT ![j] = f]
    BY <1>3, <2>3 DEF RLNext, RLSniffDone, RLLoopEnd, RLSniffResponse, RLMalformed, RLForward, RLDrop, RLReject,
       RConsume, RLReturn, RLCopy, RLCopyEnd, RCopyNext, SFates
  <2>5. HandshakeUndisturbed'
    BY <2>4
  <2> QED BY <2>1, <2>2, <2>5
<1>4. CASE Peers
  BY <1>4 DEF Peers, ClientSend, ServerSend, ClientEnd, ServerEnd, Same, lvars, rvars, shared
<1>5. CASE UNCHANGED vars
  BY <1>5 DEF vars
<1> QED
  BY <1>1, <1>2, <1>3, <1>4, <1>5 DEF Next

(* With response rules, MitM interception is never corrupted. *)
THEOREM InterceptionIsSafe == Spec => []HandshakeSafeWithResponseRules
<1>1. Init => MitmInv
  BY BoundsAssumption DEF Init, MitmInv, HandshakeUndisturbed
<1>2. MitmInv => HandshakeSafeWithResponseRules
  BY DEF MitmInv, HandshakeSafeWithResponseRules
<1> QED
  BY <1>1, <1>2, MitmStep, SniffComesFirst, TypeInvariant, PTL DEF Spec

-----------------------------------------------------------------------------
(* Without MitM, only the server-to-client side closes the write half of the
   client socket and the read half of the server socket; SOCKS5 alone closes
   the client socket as a whole.  That side ends once all is read, when a
   write fails, or after a rejection.                                      *)
HalvesKept == /\ "wr" \notin l => rl = "done"
              /\ "rd" \notin r => rl = "done"
EndedFor   == rl = "done" => \/ cliEnd = "gone" \/ skipped
                             \/ srvEnd # "open" /\ rread = ssent
LostFor    == \A j \in 1..MaxS : sfate[j] = "lost" => cliEnd = "gone"
ReadNotSent == \A j \in 1..MaxS : sfate[j] = "sent" => j > rread

DeliveryInv ==
    setup.server # "SOCKS5" /\ ~setup.mitm =>
        /\ ~mitmed /\ lr \notin {"mitm", "mitmServer"}
        /\ HalvesKept /\ EndedFor /\ LostFor /\ ReadNotSent

LEMMA DeliveryStep == TypeInv /\ DeliveryInv /\ [Next]_vars => DeliveryInv'
<1> SUFFICES ASSUME TypeInv, DeliveryInv, [Next]_vars,
                    setup.server # "SOCKS5", ~setup.mitm
             PROVE DeliveryInv'
  BY SetupFixed DEF DeliveryInv
<1> USE BoundsAssumption DEF DeliveryInv, TypeInv, TypeOK
<1>1. CASE LRNext
  <2>1. UNCHANGED <<rl, sfate, rread, ssent, cliEnd, srvEnd>>
    BY <1>1 DEF LRNext, LRSniffEOF, LRSniffTLS, LRSniffRaw, LRSniffHTTP, LRMitmClient,
       LRMitmServer, LRLoopEOF, LRLoopNotHTTP, LRMalformed, LRForward, LRSwallow, LRReject,
       LRAfterWrite, LRReturn, LRCopy, LRCopyEnd, LRServed, ReadingRequest, rvars, server, ends
  <2>2. mitmed' = mitmed /\ lr' \notin {"mitm", "mitmServer"}
    BY <1>1 DEF LRNext, LRSniffEOF, LRSniffTLS, LRSniffRaw, LRSniffHTTP, LRMitmClient,
       LRMitmServer, LRLoopEOF, LRLoopNotHTTP, LRMalformed, LRForward, LRSwallow, LRReject,
       LRAfterWrite, LRReturn, LRCopy, LRCopyEnd, LRServed, ReadingRequest, shared
  <2>3. (l' = l \/ l' = l \ {"rd"}) /\ (r' = r \/ r' = r \ {"wr"})
    BY <1>1 DEF LRNext, LRSniffEOF, LRSniffTLS, LRSniffRaw, LRSniffHTTP, LRMitmClient,
       LRMitmServer, LRLoopEOF, LRLoopNotHTTP, LRMalformed, LRForward, LRSwallow, LRReject,
       LRAfterWrite, LRReturn, LRCopy, LRCopyEnd, LRServed, ReadingRequest, CloseLR
  <2>4. skipped => skipped'
    BY <1>1 DEF LRNext, LRSniffEOF, LRSniffTLS, LRSniffRaw, LRSniffHTTP, LRMitmClient,
       LRMitmServer, LRLoopEOF, LRLoopNotHTTP, LRMalformed, LRForward, LRSwallow, LRReject,
       LRAfterWrite, LRReturn, LRCopy, LRCopyEnd, LRServed, ReadingRequest, shared
  <2>5. HalvesKept'
    BY <2>1, <2>3 DEF HalvesKept
  <2>6. EndedFor'
    BY <2>1, <2>4 DEF EndedFor
  <2> QED BY <2>1, <2>2, <2>5, <2>6 DEF LostFor, ReadNotSent
<1>2. CASE RLNext
  <2>1. UNCHANGED <<lr, mitmed, cliEnd, srvEnd, ssent>> /\ (skipped => skipped')
    BY <1>2 DEF RLNext, RLSniffDone, RLLoopEnd, RLSniffResponse, RLMalformed, RLForward, RLDrop, RLReject,
       RLReturn, RLCopy, RLCopyEnd, ReadingResponse, lvars, shared, server, ends
  <2>2. rl # "done"
    BY <1>2 DEF RLNext, RLSniffDone, RLLoopEnd, RLSniffResponse, RLMalformed, RLForward, RLDrop, RLReject,
       RLReturn, RLCopy, RLCopyEnd, ReadingResponse
  <2>3. (l' = l /\ r' = r) \/ rl' = "done"
    BY <1>2 DEF RLNext, RLSniffDone, RLLoopEnd, RLSniffResponse, RLMalformed, RLForward, RLDrop, RLReject,
       RLReturn, RLCopy, RLCopyEnd, ReadingResponse
  <2>4. CanWriteL \/ cliEnd = "gone"
    BY <2>2 DEF CanWriteL, HalvesKept
  <2>5. \/ sfate' = sfate /\ rread' = rread
        \/ \E f \in SFates : sfate' = [sfate EXCEPT ![rread] = f] /\ rread' = rread
                               /\ f = "leaked"
        \/ \E f \in SFates \ {"sent"} :
              /\ sfate' = [sfate EXCEPT ![rread + 1] = f] /\ rread' = rread + 1
              /\ f = "lost" => cliEnd = "gone"
    BY <1>2, <2>4 DEF RLNext, RLSniffDone, RLLoopEnd, RLSniffResponse, RLMalformed, RLForward, RLDrop, RLReject,
       RConsume, RLReturn, RLCopy, RLCopyEnd, RCopyNext, SFates
  <2>6. LostFor' /\ ReadNotSent'
    BY <2>1, <2>5 DEF LostFor, ReadNotSent
  <2>7. rl' = "done" => \/ cliEnd = "gone" \/ skipped
                        \/ srvEnd # "open" /\ rread = ssent /\ rread' = rread
    BY <1>2, <2>2, <2>4 DEF RLNext, RLSniffDone, RLLoopEnd, RLSniffResponse, RLMalformed, RLForward, RLDrop,
       RLReject, RLReturn, RLCopy, RLCopyEnd, ReadingResponse, RFails, HalvesKept
  <2>8. EndedFor'
    BY <2>1, <2>7 DEF EndedFor
  <2>9. HalvesKept'
    BY <2>2, <2>3 DEF HalvesKept
  <2> QED BY <2>1, <2>6, <2>8, <2>9
<1>3. CASE Peers
  <2>1. /\ UNCHANGED <<rl, sfate, rread, skipped, lr, mitmed, l, r>>
        /\ cliEnd = "gone" => cliEnd' = "gone"
        /\ srvEnd # "open" => srvEnd' # "open" /\ ssent' = ssent
    BY <1>3 DEF Peers, ClientSend, ServerSend, ClientEnd, ServerEnd, Same, lvars, rvars,
       shared, server, ends, Ends
  <2>2. HalvesKept' /\ EndedFor'
    BY <2>1 DEF HalvesKept, EndedFor
  <2> QED BY <2>1, <2>2 DEF LostFor, ReadNotSent
<1>4. CASE UNCHANGED vars
  BY <1>4 DEF vars, HalvesKept, EndedFor, LostFor, ReadNotSent
<1> QED
  BY <1>1, <1>2, <1>3, <1>4 DEF Next

(* The end of the request direction never cuts the response direction off. *)
THEOREM HalfCloseDelivers == Spec => []ResponsesDelivered
<1>1. Init => DeliveryInv
  <2>1. Init => ~mitmed /\ lr \notin {"mitm", "mitmServer"} /\ "wr" \in l /\ "rd" \in r
    BY DEF Init, Halves
  <2>2. Init => rl # "done" /\ rread = 0 /\ \A j \in 1..MaxS : sfate[j] = "sent"
    BY BoundsAssumption DEF Init
  <2> QED
    BY <2>1, <2>2, BoundsAssumption DEF DeliveryInv, HalvesKept, EndedFor, LostFor, ReadNotSent
<1>2. TypeInv /\ DeliveryInv => ResponsesDelivered
  <2> SUFFICES ASSUME TypeInv, DeliveryInv, setup.server # "SOCKS5", ~setup.mitm,
                      NEW j \in 1..ssent
               PROVE  /\ sfate[j] = "lost" => cliEnd = "gone"
                      /\ sfate[j] = "sent" /\ rl = "done" => cliEnd = "gone" \/ skipped
    BY DEF ResponsesDelivered
  <2>1. ssent \in 0..MaxS /\ rread \in 0..ssent
    BY DEF TypeInv, TypeOK
  <2>2. j \in 1..MaxS /\ j <= ssent
    BY <2>1, BoundsAssumption
  <2>3. LostFor /\ ReadNotSent /\ EndedFor
    BY DEF DeliveryInv
  <2>4. sfate[j] = "sent" => rread # ssent
    BY <2>1, <2>2, <2>3, BoundsAssumption DEF ReadNotSent
  <2> QED BY <2>2, <2>3, <2>4 DEF LostFor, EndedFor
<1> QED
  BY <1>1, <1>2, DeliveryStep, TypeInvariant, PTL DEF Spec
-----------------------------------------------------------------------------
(* With response rules, what can make a response skip them.                *)

(* The client-to-server side has not left the first message, or copies. *)
Sniffing == lr \in {"sniff", "mitm", "mitmServer"}
Copying  == lr \in {"raw", "served", "done"}

(* No HTTP response is in the server's stream; none will be. *)
Opaque    == setup.app = "other" \/ (setup.app = "https" /\ ~mitmed)
NoReplies == Opaque /\ (setup.app = "https" => ~Sniffing)

(* The client's stream: what is not read has no fate, an unread body belongs
   to a request that was swallowed, and after an upgrade no request comes. *)
ClientInv ==
    /\ \A i \in 1..MaxC : i > lread => fate[i] = "sent"
    /\ lrest => lread # 0 /\ fate[lread] = "swallowed" /\ ~Sniffing
    /\ \A i, k \in 1..csent : kind[i] = "ws" /\ i < k => kind[k] \notin Requests
    /\ \A i \in 1..csent :
          /\ kind[i] = "hello" => setup.app = "https"
          /\ kind[i] \in {"raw", "short"} => setup.app = "other" \/ Upgraded \/ pending = 0
    /\ \A i \in 1..MaxC : fate[i] = "raw" => Copying
    /\ lr \in {"mitm", "mitmServer"} => setup.app = "https" /\ ~mitmed
    /\ lr = "after" => lread # 0

(* The server has answered every request that reached it, an upgrade too. *)
Answered == /\ ~(Cardinality(Replies) < Cardinality(Reached))
            /\ \E i \in Reached : kind[i] = "ws"

ServerInv ==
    /\ \A j \in 1..MaxS : skind[j] = "none" <=> j > ssent
    /\ Opaque => \A j \in 1..MaxS : skind[j] \notin Responses
    /\ \A i, j \in 1..MaxS : skind[i] = "raw" /\ i < j => skind[j] \notin Responses
    /\ \A j \in 1..MaxS : skind[j] = "raw" =>
          IF Opaque THEN setup.app = "https" => Copying ELSE Answered
    /\ \A i, j \in 1..MaxS : skind[i] = "hello" /\ skind[j] = "hello" => i = j
    /\ \A j \in 1..MaxS : skind[j] = "hello" /\ j > rread => lr = "mitmServer" \/ NoReplies

Excused == NoReplies \/ (~IsHTTP(protocol) /\ (cliEnd # "open" \/ Upgraded))
NoneLeft ==
    \/ rrest \/ ~CanWriteL
    \/ \E k \in 1..rread : sfate[k] \in {"leaked", "bad"}
    \/ "rd" \notin r \/ (srvEnd # "open" /\ rread = ssent)
    \/ \E k \in 1..ssent : skind[k] = "raw" /\ k <= rread + 1

(* The server-to-client side waits while the first message is sniffed, hears
   whether the client ended, enters the response loop only for HTTP, and ends
   it for a reason: with what is in its stream, or for good.               *)
InOrder   == /\ \A j \in 1..MaxS : j > rread => sfate[j] = "sent"
             /\ rrest => rread # 0
Waits     == Sniffing => rl = "wait" /\ protocol \in {"TCP", "TLS"}
Hearing   == rl # "done" /\ (Sniffing \/ lr \in {"loop", "after"}) => "rd" \in l
Released  == rl \in {"wait", "loop", "read"} /\ ~Sniffing => IsHTTP(protocol) \/ Excused
Explained == rl = "raw" \/ (rl = "ret" /\ ~skipped) => Excused \/ NoneLeft

RuleInv ==
    setup.mode = "RULE_RESP" =>
        InOrder /\ Waits /\ Hearing /\ Released /\ Explained /\ UnevaluatedHasCause
(* The client-to-server side leaves the first message for good, it ends by
   copying, and it only ever closes the sockets further.                   *)
LEMMA LRControl ==
    ASSUME TypeInv, LRNext
    PROVE  /\ UNCHANGED <<setup, kind, csent, skind, ssent, cliEnd, srvEnd, rl, rconn, rrest>>
           /\ pending' \in {0, pending}
           /\ skipped => skipped'
           /\ Sniffing' => Sniffing
           /\ Copying => Copying'
           /\ l' \subseteq l /\ r' \subseteq r
           /\ lr # "mitmServer" => UNCHANGED <<mitmed, sfate, rread>>
           /\ lr' \in {"mitm", "mitmServer"} =>
                 /\ UNCHANGED mitmed
                 /\ \/ lr \in {"mitm", "mitmServer"}
                    \/ ~mitmed /\ lread < csent /\ kind[lread + 1] = "hello"
           /\ lr' = "after" => lr \in {"after", "loop"}
<1> USE DEF TypeInv, TypeOK, Sniffing, Copying, client, server, ends, rvars, shared, Halves
<1>1. CASE LRSniffEOF \/ LRSniffTLS \/ LRSniffRaw \/ LRSniffHTTP
  BY <1>1 DEF LRSniffEOF, LRSniffTLS, LRSniffRaw, LRSniffHTTP, Peekable, Unread
<1>2. CASE LRMitmClient
  BY <1>2 DEF LRMitmClient
<1>3. CASE LRMitmServer
  BY <1>3 DEF LRMitmServer
<1>4. CASE LRLoopEOF \/ LRLoopNotHTTP
  BY <1>4 DEF LRLoopEOF, LRLoopNotHTTP
<1>5. CASE LRMalformed \/ LRForward \/ LRSwallow \/ LRReject
  <2>1. /\ UNCHANGED <<setup, pending, mitmed, l, r, client, server, ends, rvars>>
        /\ lr = "loop" /\ lr' \in {"loop", "after", "ret"} /\ (skipped => skipped')
    BY <1>5 DEF LRMalformed, LRForward, LRSwallow, LRReject, ReadingRequest
  <2> QED BY <2>1
<1>6. CASE LRAfterWrite
  BY <1>6 DEF LRAfterWrite
<1>7. CASE LRReturn
  BY <1>7 DEF LRReturn, CloseLR
<1>8. CASE LRCopy
  BY <1>8 DEF LRCopy, CloseLR
<1>9. CASE LRCopyEnd \/ LRServed
  BY <1>9 DEF LRCopyEnd, LRServed, CloseLR
<1> QED
  BY <1>1, <1>2, <1>3, <1>4, <1>5, <1>6, <1>7, <1>8, <1>9 DEF LRNext

(* How the client-to-server side moves in its stream. *)
LEMMA LRReads ==
    ASSUME TypeInv, ClientInv, LRNext
    PROVE  \/ UNCHANGED <<fate, lread, lrest>>
           \/ /\ lrest /\ ~lrest' /\ lread' = lread
              /\ fate' = [fate EXCEPT ![lread] = "leaked"]
           \/ /\ lread < csent /\ lread' = lread + 1
              /\ \E f \in Fates \ {"sent"} :
                    /\ fate' = [fate EXCEPT ![lread + 1] = f]
                    /\ f = "raw" => Copying'
                    /\ lrest' => f = "swallowed" /\ ~Sniffing'
<1> USE DEF TypeInv, TypeOK, ClientInv, Sniffing, Copying, Fates, Consume
<1>1. CASE LRSniffEOF \/ LRSniffTLS \/ LRSniffRaw \/ LRSniffHTTP
  BY <1>1 DEF LRSniffEOF, LRSniffTLS, LRSniffRaw, LRSniffHTTP
<1>2. CASE LRMitmClient
  BY <1>2 DEF LRMitmClient, HelloWaiting
<1>3. CASE LRMitmServer \/ LRLoopEOF \/ LRLoopNotHTTP \/ LRAfterWrite
  BY <1>3 DEF LRMitmServer, LRLoopEOF, LRLoopNotHTTP, LRAfterWrite
<1>4. CASE LRMalformed \/ LRForward \/ LRSwallow \/ LRReject
  <2>1. lread < csent /\ ~lrest
    BY <1>4 DEF LRMalformed, LRForward, LRSwallow, LRReject, ReadingRequest, Peekable, Unread
  <2>2. PICK f \in {"bad", "forwarded", "lost", "swallowed", "rejected"} :
           /\ Consume(f)
           /\ lrest' => f = "swallowed" /\ lr' = "loop"
    <3>1. CASE LRMalformed
      BY <2>1, <3>1 DEF LRMalformed
    <3>2. CASE LRForward
      <4>1. (Consume("forwarded") \/ Consume("lost")) /\ lrest' = lrest
        BY <3>2 DEF LRForward
      <4> QED BY <2>1, <4>1
    <3>3. CASE LRSwallow
      <4>1. Consume("swallowed") /\ lr' = "loop"
        BY <3>3 DEF LRSwallow, ReadingRequest
      <4> QED BY <4>1
    <3>4. CASE LRReject
      BY <2>1, <3>4 DEF LRReject
    <3> QED BY <1>4, <3>1, <3>2, <3>3, <3>4
  <2> QED BY <2>1, <2>2
<1>5. CASE LRReturn \/ LRCopyEnd \/ LRServed
  BY <1>5 DEF LRReturn, LRCopyEnd, LRServed
<1>6. CASE LRCopy
  <2>1. lrest \/ lread < csent
    BY <1>6 DEF LRCopy, Unread
  <2>2. lr' \in {"raw", "served"} /\ ~lrest'
    BY <1>6 DEF LRCopy
  <2>3. CopyNext("raw") \/ CopyNext("lost")
    BY <1>6 DEF LRCopy
  <2> QED BY <2>1, <2>2, <2>3 DEF CopyNext
<1> QED
  BY <1>1, <1>2, <1>3, <1>4, <1>5, <1>6 DEF LRNext

LEMMA ClientStep == TypeInv /\ SniffFirst /\ ClientInv /\ [Next]_vars => ClientInv'
<1> SUFFICES ASSUME TypeInv, SniffFirst, ClientInv, [Next]_vars PROVE ClientInv'
  OBVIOUS
<1> USE BoundsAssumption DEF TypeInv, TypeOK, ClientInv
<1>1. CASE LRNext
  <2>1. UNCHANGED <<setup, kind, csent>> /\ Upgraded' = Upgraded
    BY <1>1, LRControl DEF Upgraded
  <2>2. /\ \A i \in 1..MaxC : i > lread' => fate'[i] = "sent"
        /\ lrest' => lread' # 0 /\ fate'[lread'] = "swallowed" /\ ~Sniffing'
        /\ \A i \in 1..MaxC : fate'[i] = "raw" => Copying'
        /\ lr' = "after" => lread' # 0
    <3>1. (Sniffing' => Sniffing) /\ (Copying => Copying')
      BY <1>1, LRControl
    <3>2. lr' = "after" => lread' # 0
      <4>1. CASE lr = "after"
        BY <1>1, <4>1, LRReads
      <4>2. CASE lr = "loop" /\ lr' = "after"
        <5>1. LRForward
          BY <1>1, <4>2 DEF LRNext, LRSniffEOF, LRSniffTLS, LRSniffRaw, LRSniffHTTP, LRMitmClient,
             LRMitmServer, LRLoopEOF, LRLoopNotHTTP, LRMalformed, LRSwallow, LRReject,
             LRAfterWrite, LRReturn, LRCopy, LRCopyEnd, LRServed
        <5>2. lread' = lread + 1
          BY <5>1 DEF LRForward, Consume
        <5> QED BY <5>2
      <4> QED BY <1>1, <4>1, <4>2, LRControl
    <3>3. CASE UNCHANGED <<fate, lread, lrest>>
      BY <3>1, <3>2, <3>3
    <3>4. CASE /\ lrest /\ ~lrest' /\ lread' = lread
               /\ fate' = [fate EXCEPT ![lread] = "leaked"]
      BY <3>1, <3>2, <3>4
    <3>5. ASSUME NEW f \in Fates \ {"sent"}, lread < csent, lread' = lread + 1,
                 fate' = [fate EXCEPT ![lread + 1] = f], f = "raw" => Copying',
                 lrest' => f = "swallowed" /\ ~Sniffing'
          PROVE  /\ \A i \in 1..MaxC : i > lread' => fate'[i] = "sent"
                 /\ lrest' => lread' # 0 /\ fate'[lread'] = "swallowed" /\ ~Sniffing'
                 /\ \A i \in 1..MaxC : fate'[i] = "raw" => Copying'
      BY <3>1, <3>5
    <3> QED BY <1>1, <3>2, <3>3, <3>4, <3>5, LRReads
  <2>3. \A i \in 1..csent : kind[i] \in {"raw", "short"} =>
           setup.app = "other" \/ Upgraded \/ pending' = 0
    BY <1>1, LRControl
  <2>4. lr' \in {"mitm", "mitmServer"} => setup.app = "https" /\ ~mitmed'
    BY <1>1, LRControl
  <2> QED BY <2>1, <2>2, <2>3, <2>4
<1>2. CASE RLNext \/ UNCHANGED vars \/ ServerSend \/ ServerEnd \/ ClientEnd
  <2>1. UNCHANGED <<setup, lvars, client, mitmed, pending>>
    BY <1>2 DEF RLNext, RLSniffDone, RLLoopEnd, RLSniffResponse, RLMalformed, RLForward, RLDrop, RLReject,
       RLReturn, RLCopy, RLCopyEnd, ReadingResponse, shared, ServerSend, ServerEnd, ClientEnd,
       Same, vars, lvars, client
  <2>2. Upgraded' = Upgraded /\ Sniffing' = Sniffing /\ Copying' = Copying
    BY <2>1 DEF Upgraded, Sniffing, Copying, lvars, client
  <2> QED BY <2>1, <2>2 DEF lvars, client
<1>3. CASE ClientSend
  <2>1. UNCHANGED <<setup, lvars, mitmed, pending>> /\ csent < MaxC /\ csent' = csent + 1
    BY <1>3 DEF ClientSend, Same, shared
  <2>2. PICK k \in ClientMay : kind' = [kind EXCEPT ![csent + 1] = k]
    BY <1>3 DEF ClientSend
  <2>3. /\ k \in Requests => ~Upgraded
        /\ k = "hello" => setup.app = "https"
        /\ k \in {"raw", "short"} => setup.app = "other" \/ Upgraded \/ pending = 0
    <3>1. ClientTalksTo = "tls" => pending = 0
      BY DEF ClientTalksTo, SniffFirst
    <3>2. setup.app \in Apps
      BY SetupsAssumption
    <3> QED BY <3>1, <3>2 DEF ClientMay, ClientTalksTo, Requests, Apps
  <2>4. kind' \in [1..MaxC -> CKinds \cup {k}] /\ kind'[csent + 1] = k
        /\ \A i \in 1..csent : kind'[i] = kind[i]
    BY <2>1, <2>2
  <2>5. Upgraded => Upgraded'
    BY <2>1, <2>4 DEF Upgraded
  <2>6. \A i \in 1..csent' :
           /\ kind'[i] = "hello" => setup.app = "https"
           /\ kind'[i] \in {"raw", "short"} => setup.app = "other" \/ Upgraded' \/ pending = 0
    <3> SUFFICES ASSUME NEW i \in 1..csent'
                 PROVE  /\ kind'[i] = "hello" => setup.app = "https"
                        /\ kind'[i] \in {"raw", "short"} =>
                              setup.app = "other" \/ Upgraded' \/ pending = 0
      OBVIOUS
    <3>1. i \in 1..csent \/ i = csent + 1
      BY <2>1
    <3> QED BY <2>3, <2>4, <2>5, <3>1
  <2>7. \A i, j \in 1..csent' : kind'[i] = "ws" /\ i < j => kind'[j] \notin Requests
    <3> SUFFICES ASSUME NEW i \in 1..csent', NEW j \in 1..csent', kind'[i] = "ws", i < j
                 PROVE  kind'[j] \notin Requests
      OBVIOUS
    <3>1. i \in 1..csent /\ (j \in 1..csent \/ j = csent + 1)
      BY <2>1
    <3> QED BY <2>3, <2>4, <3>1 DEF Upgraded
  <2> QED BY <2>1, <2>6, <2>7 DEF lvars, Sniffing, Copying
<1> QED
  BY <1>1, <1>2, <1>3 DEF Next, Peers

(* An upgrade that has reached the server is the last request that does. *)
LEMMA ReachedStays ==
    ASSUME TypeInv, ClientInv, LRNext \/ UNCHANGED <<kind, csent, fate>> \/ ClientSend,
           \E i \in Reached : kind[i] = "ws"
    PROVE  Reached' = Reached /\ \E i \in Reached : kind'[i] = "ws"
<1> USE BoundsAssumption DEF TypeInv, TypeOK, ClientInv, Reached, Requests
<1>1. PICK u \in 1..csent : kind[u] = "ws" /\ fate[u] \in {"forwarded", "raw"} /\ u <= lread
  BY DEF Reached
<1>2. CASE LRNext
  <2>1. UNCHANGED <<kind, csent>>
    BY <1>2, LRControl
  <2>2. \A i \in 1..csent : fate'[i] \in {"forwarded", "raw"} /\ kind[i] \in Requests
                        <=> fate[i] \in {"forwarded", "raw"} /\ kind[i] \in Requests
    <3>1. CASE UNCHANGED <<fate, lread, lrest>>
      BY <3>1
    <3>2. CASE lrest /\ fate' = [fate EXCEPT ![lread] = "leaked"]
      BY <3>2
    <3>3. ASSUME NEW f \in Fates, lread < csent, fate' = [fate EXCEPT ![lread + 1] = f]
          PROVE  \A i \in 1..csent : fate'[i] \in {"forwarded", "raw"} /\ kind[i] \in Requests
                                 <=> fate[i] \in {"forwarded", "raw"} /\ kind[i] \in Requests
      <4>1. kind[lread + 1] \notin Requests
        BY <1>1, <3>3
      <4> QED BY <3>3, <4>1
    <3> QED BY <1>2, <3>1, <3>2, <3>3, LRReads
  <2>3. Reached' = Reached
    BY <2>1, <2>2
  <2> QED BY <1>1, <2>1, <2>3
<1>3. CASE UNCHANGED <<kind, csent, fate>>
  BY <1>3
<1>4. CASE ClientSend
  <2>1. /\ csent < MaxC /\ csent' = csent + 1 /\ UNCHANGED <<fate, lread>>
        /\ \A i \in 1..csent : kind'[i] = kind[i]
    BY <1>4 DEF ClientSend, Same, lvars
  <2>2. fate'[csent + 1] = "sent"
    BY <2>1
  <2>3. 1..csent' = 1..csent \cup {csent + 1}
    BY <2>1
  <2>4. Reached' = Reached
    BY <2>1, <2>2, <2>3
  <2> QED BY <1>1, <2>1, <2>4
<1> QED
  BY <1>2, <1>3, <1>4

(* A stream without HTTP responses stays without. *)
LEMMA OpaqueStays ==
    ASSUME TypeInv, ClientInv, LRNext
    PROVE  /\ Opaque' => Opaque
           /\ NoReplies => NoReplies'
           /\ mitmed' # mitmed =>
                 /\ Opaque /\ setup.app = "https" /\ ~Copying
                 /\ lr = "mitmServer" /\ RUnread /\ skind[rread + 1] = "hello"
                 /\ rread' = rread + 1
<1> USE DEF TypeInv, TypeOK, ClientInv, Opaque, NoReplies, Sniffing, Copying
<1>1. setup' = setup /\ (Sniffing' => Sniffing)
  BY LRControl
<1>2. CASE LRMitmServer
  <2>1. lr = "mitmServer" /\ (mitmed' = mitmed \/ mitmed')
    BY <1>2 DEF LRMitmServer
  <2>2. mitmed' # mitmed => RUnread /\ skind[rread + 1] = "hello" /\ rread' = rread + 1
    BY <1>2 DEF LRMitmServer, RConsume
  <2> QED BY <1>1, <2>1, <2>2
<1>3. CASE ~LRMitmServer
  <2>1. mitmed' = mitmed
    BY <1>3 DEF LRNext, LRSniffEOF, LRSniffTLS, LRSniffRaw, LRSniffHTTP, LRMitmClient,
       LRLoopEOF, LRLoopNotHTTP, LRMalformed, LRForward, LRSwallow, LRReject, LRAfterWrite,
       LRReturn, LRCopy, LRCopyEnd, LRServed, ReadingRequest, shared
  <2> QED BY <1>1, <2>1
<1> QED
  BY <1>2, <1>3

LEMMA ServerStep ==
    TypeInv /\ ClientInv /\ ServerInv /\ [Next]_vars => ServerInv'
<1> SUFFICES ASSUME TypeInv, ClientInv, ServerInv, [Next]_vars PROVE ServerInv'
  OBVIOUS
<1> USE BoundsAssumption DEF TypeInv, TypeOK, ServerInv
<1>1. CASE LRNext
  <2>1. /\ UNCHANGED <<setup, skind, ssent>> /\ (Copying => Copying')
        /\ lr # "mitmServer" => UNCHANGED <<mitmed, rread>>
    BY <1>1, LRControl
  <2>2. ASSUME NEW j \in 1..MaxS, skind[j] = "raw"
        PROVE  IF Opaque' THEN setup.app = "https" => Copying' ELSE Answered'
    <3>1. mitmed' = mitmed
      BY <1>1, <2>2, OpaqueStays
    <3>2. Opaque' = Opaque
      BY <2>1, <3>1 DEF Opaque
    <3>3. CASE Opaque
      BY <2>1, <2>2, <3>2, <3>3
    <3>4. CASE ~Opaque
      <4>1. Answered
        BY <2>2, <3>4
      <4>2. Reached' = Reached /\ \E i \in Reached : kind'[i] = "ws"
        BY <1>1, <4>1, ReachedStays DEF Answered
      <4>3. Replies' = Replies
        BY <2>1 DEF Replies
      <4> QED BY <3>2, <3>4, <4>1, <4>2, <4>3 DEF Answered
    <3> QED BY <3>3, <3>4
  <2>3. ASSUME NEW j \in 1..MaxS, skind[j] = "hello", j > rread'
        PROVE  lr' = "mitmServer" \/ NoReplies'
    <3>1. CASE LRMitmServer
      <4>1. rread' \in {rread, rread + 1}
        BY <3>1 DEF LRMitmServer, RConsume
      <4>2. mitmed' = mitmed
        BY <1>1, <2>3, <4>1, OpaqueStays DEF RUnread
      <4>3. lr' = "ret" \/ mitmed'
        BY <3>1 DEF LRMitmServer
      <4>4. setup.app = "https" /\ ~mitmed
        BY <3>1 DEF ClientInv, LRMitmServer
      <4> QED BY <2>1, <4>2, <4>3, <4>4 DEF NoReplies, Opaque, Sniffing
    <3>2. CASE ~LRMitmServer
      <4>1. lr # "mitmServer"
        BY <1>1, <3>2 DEF LRNext, LRSniffEOF, LRSniffTLS, LRSniffRaw, LRSniffHTTP, LRMitmClient,
           LRLoopEOF, LRLoopNotHTTP, LRMalformed, LRForward, LRSwallow, LRReject, LRAfterWrite,
           LRReturn, LRCopy, LRCopyEnd, LRServed, ReadingRequest
      <4>2. NoReplies
        BY <2>1, <2>3, <4>1
      <4> QED BY <1>1, <4>2, OpaqueStays
    <3> QED BY <3>1, <3>2
  <2>4. Opaque' => Opaque
    BY <1>1, OpaqueStays
  <2> QED BY <2>1, <2>2, <2>3, <2>4
<1>2. CASE RLNext \/ UNCHANGED vars \/ ServerEnd \/ ClientEnd
  <2>1. UNCHANGED <<setup, lr, fate, client, server, mitmed>> /\ rread' \in {rread, rread + 1}
    BY <1>2 DEF RLNext, RLSniffDone, RLLoopEnd, RLSniffResponse, RLMalformed, RLForward, RLDrop, RLReject,
       RLReturn, RLCopy, RLCopyEnd, RConsume, RCopyNext, ReadingResponse, shared, ServerEnd,
       ClientEnd, Same, vars, lvars, rvars, client, server
  <2>2. /\ UNCHANGED <<kind, csent, skind, ssent>>
        /\ UNCHANGED <<Opaque, NoReplies, Copying, Answered>>
    BY <2>1 DEF Opaque, NoReplies, Sniffing, Copying, Answered, Replies, Reached, client, server
  <2> QED BY <2>1, <2>2
<1>3. CASE ClientSend
  <2>1. UNCHANGED <<setup, lr, skind, ssent, mitmed, rread>>
    BY <1>3 DEF ClientSend, Same, shared, lvars, rvars, server
  <2>2. UNCHANGED <<Opaque, NoReplies, Copying, Replies>>
    BY <2>1 DEF Opaque, NoReplies, Sniffing, Copying, Replies
  <2>3. Answered => Answered'
    BY <1>3, <2>2, ReachedStays DEF Answered
  <2> QED BY <2>1, <2>2, <2>3
<1>4. CASE ServerSend
  <2>1. /\ UNCHANGED <<setup, lr, fate, kind, csent, mitmed, rread>>
        /\ ssent < MaxS /\ ssent' = ssent + 1
    BY <1>4 DEF ServerSend, Same, shared, lvars, rvars, client
  <2>2. PICK k \in ServerMay : skind' = [skind EXCEPT ![ssent + 1] = k]
    BY <1>4 DEF ServerSend
  <2>3. /\ skind'[ssent + 1] = k
        /\ \A j \in 1..MaxS : j # ssent + 1 => skind'[j] = skind[j]
    BY <2>1, <2>2
  <2>4. UNCHANGED <<Opaque, NoReplies, Copying, Reached>>
    BY <2>1 DEF Opaque, NoReplies, Sniffing, Copying, Reached
  <2>5. setup.app \in Apps
    BY SetupsAssumption
  <2>6. CASE k \in Responses
    <3>1. ~Opaque /\ Cardinality(Replies) < Cardinality(Reached)
      BY <2>5, <2>6 DEF ServerMay, Opaque, Responses, Apps
    <3>2. \A j \in 1..MaxS : skind[j] # "raw"
      BY <3>1 DEF Answered
    <3> QED BY <2>1, <2>3, <2>4, <2>6, <3>1, <3>2 DEF Responses
  <2>7. CASE k = "raw"
    <3>1. IF Opaque THEN setup.app = "https" => Copying
          ELSE ~(Cardinality(Replies) < Cardinality(Reached)) /\ \E i \in Reached : kind[i] = "ws"
      BY <2>5, <2>7 DEF ServerMay, Opaque, Responses, Apps, ClientInv
    <3>2. Replies' = Replies
      <4>1. 1..ssent' = 1..ssent \cup {ssent + 1}
        BY <2>1
      <4> QED BY <2>1, <2>3, <2>7, <4>1 DEF Replies, Responses
    <3>3. IF Opaque' THEN setup.app = "https" => Copying' ELSE Answered'
      BY <2>1, <2>4, <3>1, <3>2 DEF Answered
    <3>4. \A i, j \in 1..MaxS : skind'[i] = "raw" /\ i < j => skind'[j] \notin Responses
      <4> SUFFICES ASSUME NEW i \in 1..MaxS, NEW j \in 1..MaxS, skind'[i] = "raw", i < j
                   PROVE  skind'[j] \notin Responses
        OBVIOUS
      <4>1. CASE j = ssent + 1
        BY <2>3, <2>7, <4>1 DEF Responses
      <4>2. CASE i = ssent + 1
        <5>1. j # ssent + 1 /\ skind[j] = "none"
          BY <4>2
        <5> QED BY <2>3, <5>1 DEF Responses
      <4>3. CASE i # ssent + 1 /\ j # ssent + 1
        <5>1. skind[i] = "raw" /\ skind'[j] = skind[j]
          BY <2>3, <4>3
        <5> QED BY <5>1
      <4> QED BY <4>1, <4>2, <4>3
    <3>5. \A j \in 1..MaxS : skind'[j] = "none" <=> j > ssent'
      BY <2>1, <2>3, <2>7
    <3>6. Opaque' => \A j \in 1..MaxS : skind'[j] \notin Responses
      BY <2>3, <2>4, <2>7 DEF Responses
    <3>7. \A j \in 1..MaxS : skind'[j] = "hello" => skind[j] = "hello"
      BY <2>3, <2>7
    <3> QED BY <2>1, <2>4, <3>3, <3>4, <3>5, <3>6, <3>7
  <2>8. CASE k = "hello"
    <3>1. Opaque /\ setup.app = "https" /\ lr = "mitmServer" /\ \A j \in 1..ssent : skind[j] # "hello"
      BY <2>5, <2>8 DEF ServerMay, Opaque, Responses, Apps
    <3>2. \A j \in 1..MaxS : skind[j] # "hello"
      BY <3>1
    <3> QED BY <2>1, <2>3, <2>4, <2>8, <3>1, <3>2 DEF Responses
  <2> QED BY <2>2, <2>6, <2>7, <2>8 DEF ServerMay
<1> QED
  BY <1>1, <1>2, <1>3, <1>4 DEF Next, Peers
(* Once the first message is sniffed, an excuse stays one. *)
LEMMA ExcuseStays ==
    ASSUME TypeInv, ClientInv, [Next]_vars, ~Sniffing, Excused
    PROVE  Excused'
<1> USE DEF TypeInv, TypeOK
<1>1. CASE LRNext
  <2>1. /\ UNCHANGED <<kind, csent, cliEnd>> /\ (NoReplies => NoReplies')
    BY <1>1, LRControl, OpaqueStays
  <2>2. ~IsHTTP(protocol) => ~IsHTTP(protocol)'
    BY <1>1 DEF LRNext, LRSniffEOF, LRSniffTLS, LRSniffRaw, LRSniffHTTP, LRMitmClient,
       LRMitmServer, LRLoopEOF, LRLoopNotHTTP, LRMalformed, LRForward, LRSwallow, LRReject,
       LRAfterWrite, LRReturn, LRCopy, LRCopyEnd, LRServed, ReadingRequest, shared, IsHTTP, Sniffing
  <2> QED BY <2>1, <2>2 DEF Excused, Upgraded
<1>2. CASE RLNext \/ UNCHANGED vars \/ ServerSend \/ ServerEnd
  <2>1. UNCHANGED <<setup, lr, mitmed, protocol, kind, csent, cliEnd>>
    BY <1>2 DEF RLNext, RLSniffDone, RLLoopEnd, RLSniffResponse, RLMalformed, RLForward, RLDrop, RLReject,
       RLReturn, RLCopy, RLCopyEnd, ReadingResponse, shared, ServerSend, ServerEnd, client, lvars,
       Same, vars, ends
  <2> QED BY <2>1 DEF Excused, NoReplies, Opaque, Sniffing, Upgraded, IsHTTP
<1>3. CASE ClientEnd
  <2>1. UNCHANGED <<setup, lr, mitmed, protocol, kind, csent>> /\ cliEnd' # "open"
    BY <1>3 DEF ClientEnd, shared, client, lvars, Same
  <2> QED BY <2>1 DEF Excused, NoReplies, Opaque, Sniffing, Upgraded, IsHTTP
<1>4. CASE ClientSend
  <2>1. /\ UNCHANGED <<setup, lr, mitmed, protocol, cliEnd>>
        /\ csent' = csent + 1 /\ \A i \in 1..csent : kind'[i] = kind[i]
    BY <1>4, BoundsAssumption DEF ClientSend, shared, client, lvars, Same, ends
  <2>2. Upgraded => Upgraded'
    BY <2>1, BoundsAssumption DEF Upgraded
  <2> QED BY <2>1, <2>2 DEF Excused, NoReplies, Opaque, Sniffing, IsHTTP
<1> QED
  BY <1>1, <1>2, <1>3, <1>4 DEF Next, Peers

(* The client-to-server side leaves the first message or the loop: the
   response side is to enter its own loop, or has an excuse not to.        *)
LEMMA LRReleases ==
    ASSUME TypeInv, SniffFirst, ClientInv, ServerInv, Waits, Hearing, Released, LRNext,
           Sniffing => pending = 1, rl \in {"wait", "loop", "read"}, ~Sniffing'
    PROVE  IsHTTP(protocol)' \/ Excused'
<1> USE DEF TypeInv, TypeOK, ClientInv
<1>1. /\ UNCHANGED <<setup, kind, csent, cliEnd>> /\ Upgraded' = Upgraded
      /\ setup.app \in Apps
  BY LRControl, SetupsAssumption DEF Upgraded
<1>2. ASSUME setup.app = "https", ~mitmed'
      PROVE  Excused'
  BY <1>1, <1>2 DEF Excused, NoReplies, Opaque, Sniffing
<1>3. CASE LRSniffEOF
  <2>1. lr = "sniff" /\ PeekFails /\ protocol' = protocol
    BY <1>3 DEF LRSniffEOF, shared
  <2>2. cliEnd # "open" /\ ~IsHTTP(protocol)'
    BY <2>1 DEF PeekFails, Waits, Hearing, Sniffing, IsHTTP
  <2> QED BY <1>1, <2>2 DEF Excused
<1>4. CASE LRSniffTLS
  <2>1. ~mitmed' /\ kind[lread + 1] = "hello" /\ lread < csent
    BY <1>4 DEF LRSniffTLS, Peekable, Unread
  <2> QED BY <1>2, <2>1
<1>5. CASE LRSniffRaw
  <2>1. /\ kind[lread + 1] \in {"raw", "short"} /\ lread < csent /\ lr = "sniff"
        /\ protocol' = protocol /\ mitmed' = mitmed
    BY <1>5 DEF LRSniffRaw, Peekable, Unread
  <2>2. setup.app = "other" \/ Upgraded
    BY <2>1 DEF Sniffing
  <2>3. ~IsHTTP(protocol)'
    BY <2>1 DEF Waits, Sniffing, IsHTTP
  <2> QED BY <1>1, <2>2, <2>3 DEF Excused, NoReplies, Opaque
<1>6. CASE LRSniffHTTP
  BY <1>6 DEF LRSniffHTTP, IsHTTP
<1>7. CASE LRMitmClient
  BY <1>2, <1>7 DEF LRMitmClient, shared
<1>8. CASE LRMitmServer
  <2>1. ~mitmed'
    BY <1>8 DEF LRMitmServer, Sniffing
  <2> QED BY <1>2, <1>8, <2>1 DEF LRMitmServer
<1>9. CASE LRLoopEOF
  <2>1. cliEnd # "open" /\ ~IsHTTP(protocol)'
    BY <1>9 DEF LRLoopEOF, PeekFails, Hearing, IsHTTP
  <2> QED BY <1>1, <2>1 DEF Excused
<1>10. CASE LRAfterWrite
  <2>1. ~Sniffing
    BY <1>10 DEF LRAfterWrite, Sniffing
  <2>2. CASE kind[lread] = "ws"
    <3>1. Upgraded /\ ~IsHTTP(protocol)'
      BY <1>10, <2>2 DEF LRAfterWrite, Upgraded, IsHTTP
    <3> QED BY <1>1, <3>1 DEF Excused
  <2>3. CASE kind[lread] # "ws"
    <3>1. protocol' = protocol
      BY <1>10, <2>3 DEF LRAfterWrite
    <3> QED BY <2>1, <3>1, ExcuseStays DEF Released, Next, IsHTTP
  <2> QED BY <2>2, <2>3
<1>11. CASE /\ LRNext /\ ~LRSniffEOF /\ ~LRSniffTLS /\ ~LRSniffRaw /\ ~LRSniffHTTP
            /\ ~LRMitmClient /\ ~LRMitmServer /\ ~LRLoopEOF /\ ~LRAfterWrite
  <2>1. ~Sniffing /\ protocol' = protocol
    BY <1>11 DEF LRNext, LRLoopNotHTTP, LRMalformed, LRForward, LRSwallow, LRReject, LRReturn,
       LRCopy, LRCopyEnd, LRServed, ReadingRequest, shared, Sniffing
  <2> QED BY <2>1, ExcuseStays DEF Released, Next, IsHTTP
<1> QED
  BY <1>3, <1>4, <1>5, <1>6, <1>7, <1>8, <1>9, <1>10, <1>11

LEMMA RuleStepLR ==
    ASSUME TypeInv, SniffFirst, MitmInv, ClientInv, ServerInv, RuleInv, LRNext,
           setup.mode = "RULE_RESP"
    PROVE  RuleInv'
<1> USE BoundsAssumption DEF TypeInv, TypeOK, RuleInv
<1>1. /\ UNCHANGED <<setup, skind, ssent, cliEnd, srvEnd, rl, rconn, rrest>>
      /\ (skipped => skipped') /\ (Sniffing' => Sniffing)
      /\ l' \subseteq l /\ r' \subseteq r
      /\ lr # "mitmServer" => UNCHANGED <<mitmed, sfate, rread>>
  BY LRControl
<1>2. Sniffing => pending = 1
  BY DEF MitmInv, Sniffing
<1>3. \/ UNCHANGED <<sfate, rread>>
      \/ \E f \in {"mitm", "bad"} : /\ sfate' = [sfate EXCEPT ![rread + 1] = f]
                                    /\ rread' = rread + 1 /\ Sniffing
  <2>1. CASE LRMitmServer
    BY <2>1 DEF LRMitmServer, RConsume, Sniffing
  <2>2. CASE ~LRMitmServer
    BY <2>2 DEF LRNext, LRSniffEOF, LRSniffTLS, LRSniffRaw, LRSniffHTTP, LRMitmClient,
       LRLoopEOF, LRLoopNotHTTP, LRMalformed, LRForward, LRSwallow, LRReject, LRAfterWrite,
       LRReturn, LRCopy, LRCopyEnd, LRServed, ReadingRequest, rvars
  <2> QED BY <2>1, <2>2
<1>4. InOrder'
  <2>1. CASE UNCHANGED <<sfate, rread>>
    BY <1>1, <2>1 DEF InOrder
  <2>2. ASSUME NEW f \in {"mitm", "bad"}, sfate' = [sfate EXCEPT ![rread + 1] = f],
               rread' = rread + 1
        PROVE  InOrder'
    BY <1>1, <2>2 DEF InOrder
  <2> QED BY <1>3, <2>1, <2>2
<1>5. Waits'
  <2>1. Sniffing' => protocol' \in {protocol, "TLS"}
    BY DEF LRNext, LRSniffEOF, LRSniffTLS, LRSniffRaw, LRSniffHTTP, LRMitmClient,
       LRMitmServer, LRLoopEOF, LRLoopNotHTTP, LRMalformed, LRForward, LRSwallow, LRReject,
       LRAfterWrite, LRReturn, LRCopy, LRCopyEnd, LRServed, ReadingRequest, shared, Sniffing
  <2> QED BY <1>1, <2>1 DEF Waits
<1>6. Hearing'
  <2>1. lr' \in {"sniff", "mitm", "mitmServer", "loop", "after"} =>
           l' = l /\ lr \in {"sniff", "mitm", "mitmServer", "loop", "after"}
    BY DEF LRNext, LRSniffEOF, LRSniffTLS, LRSniffRaw, LRSniffHTTP, LRMitmClient,
       LRMitmServer, LRLoopEOF, LRLoopNotHTTP, LRMalformed, LRForward, LRSwallow, LRReject,
       LRAfterWrite, LRReturn, LRCopy, LRCopyEnd, LRServed, ReadingRequest
  <2> QED BY <1>1, <2>1 DEF Hearing, Sniffing
<1>7. Released'
  BY <1>1, <1>2, LRReleases DEF Released
<1>8. Explained'
  <2> SUFFICES ASSUME rl = "raw" \/ (rl = "ret" /\ ~skipped)
               PROVE  Excused' \/ NoneLeft'
    BY <1>1 DEF Explained
  <2>1. ~Sniffing
    BY DEF Waits
  <2>2. UNCHANGED <<sfate, rread>>
    BY <1>3, <2>1
  <2>3. Excused => Excused'
    BY <2>1, ExcuseStays DEF Next
  <2>4. NoneLeft => NoneLeft'
    BY <1>1, <2>2 DEF NoneLeft, CanWriteL
  <2> QED BY <2>3, <2>4 DEF Explained
<1>9. UnevaluatedHasCause'
  <2>1. CASE Sniffing
    <3>1. \A j \in 1..MaxS : sfate[j] # "raw"
      BY <1>2, <2>1 DEF SniffFirst
    <3>2. \A j \in 1..MaxS : sfate'[j] # "raw"
      BY <1>3, <3>1
    <3> QED BY <3>2 DEF UnevaluatedHasCause
  <2>2. CASE ~Sniffing
    <3>1. UNCHANGED <<sfate, rread, skind, cliEnd>>
      BY <1>1, <1>3, <2>2
    <3>2. ~IsHTTP(protocol) => ~IsHTTP(protocol)'
      BY <2>2 DEF LRNext, LRSniffEOF, LRSniffTLS, LRSniffRaw, LRSniffHTTP, LRMitmClient,
         LRMitmServer, LRLoopEOF, LRLoopNotHTTP, LRMalformed, LRForward, LRSwallow, LRReject,
         LRAfterWrite, LRReturn, LRCopy, LRCopyEnd, LRServed, ReadingRequest, shared, IsHTTP,
         Sniffing
    <3>3. Upgraded' = Upgraded
      BY LRControl DEF Upgraded
    <3> QED BY <1>1, <3>1, <3>2, <3>3 DEF UnevaluatedHasCause
  <2> QED BY <2>1, <2>2
<1> QED
  BY <1>1, <1>4, <1>5, <1>6, <1>7, <1>8, <1>9
(* How the server-to-client side moves in its stream. *)
LEMMA RLReads ==
    ASSUME TypeInv, RLNext
    PROVE  \/ UNCHANGED <<sfate, rread, rrest>>
           \/ /\ rl = "raw" /\ rrest /\ ~rrest' /\ rread' = rread
              /\ sfate' = [sfate EXCEPT ![rread] = "leaked"]
           \/ /\ rl \in {"read", "raw"} /\ ~rrest /\ rread < ssent /\ rread' = rread + 1
              /\ \E f \in SFates \ {"sent"} : /\ sfate' = [sfate EXCEPT ![rread + 1] = f]
                                              /\ f = "raw" => rl = "raw" /\ CanWriteL /\ RUnread
<1> USE DEF TypeInv, TypeOK, Heads, ReadsHead, SFates, RConsume
<1>1. CASE RLSniffDone \/ RLLoopEnd \/ RLSniffResponse \/ RLReturn \/ RLCopyEnd
  BY <1>1 DEF RLSniffDone, RLLoopEnd, RLSniffResponse, RLReturn, RLCopyEnd
<1>2. CASE RLMalformed \/ RLForward \/ RLDrop \/ RLReject
  <2>1. rl = "read" /\ ~rrest /\ rread < ssent
    BY <1>2 DEF RLMalformed, RLForward, RLDrop, RLReject, ReadingResponse
  <2>2. \E f \in {"bad", "forwarded", "lost", "dropped", "rejected"} : RConsume(f)
    BY <1>2 DEF RLMalformed, RLForward, RLDrop, RLReject
  <2> QED BY <2>1, <2>2
<1>3. CASE RLCopy
  <2>1. rl = "raw" /\ (rrest \/ RUnread) /\ ~rrest'
    BY <1>3 DEF RLCopy
  <2>2. \E f \in {"stolen", "raw", "lost"} : RCopyNext(f) /\ (f = "raw" => CanWriteL)
    BY <1>3 DEF RLCopy
  <2> QED BY <2>1, <2>2 DEF RCopyNext, RUnread
<1> QED
  BY <1>1, <1>2, <1>3 DEF RLNext

(* A response side that gives up its loop, or never enters it, has a reason. *)
LEMMA RLExplains ==
    ASSUME TypeInv, ServerInv, InOrder, Waits, Released, Explained, RLNext, ~Sniffing,
           rl' = "raw" \/ (rl' = "ret" /\ ~skipped')
    PROVE  Excused' \/ NoneLeft'
<1> USE DEF TypeInv, TypeOK
<1>1. UNCHANGED <<setup, lr, mitmed, protocol, kind, csent, skind, ssent, cliEnd, srvEnd>>
  BY DEF RLNext, RLSniffDone, RLLoopEnd, RLSniffResponse, RLMalformed, RLForward, RLDrop, RLReject, RLReturn,
     RLCopy, RLCopyEnd, ReadingResponse, shared, lvars, client, server, ends
<1>2. Excused' = Excused
  BY <1>1 DEF Excused, NoReplies, Opaque, Sniffing, Upgraded, IsHTTP
<1>3. rread' \in {rread, rread + 1}
  BY RLReads
<1>4. CASE RLSniffDone
  BY <1>2, <1>4 DEF RLSniffDone, Released
<1>5. CASE RLLoopEnd
  <2>1. UNCHANGED <<l, r, sfate, rread, rrest>>
    BY <1>5 DEF RLLoopEnd
  <2>2. NoneLeft' = NoneLeft
    BY <1>1, <2>1 DEF NoneLeft, CanWriteL
  <2>3. CASE RFails \/ rrest
    BY <2>2, <2>3 DEF NoneLeft, RFails
  <2>4. CASE RUnread /\ ~IsHTTP(protocol)
    BY <1>2, <1>5, <2>4 DEF RLLoopEnd, Released
  <2>5. CASE RUnread /\ skind[rread + 1] \notin Responses
    <3>1. rread + 1 \in 1..MaxS /\ rread + 1 \in 1..ssent
      BY <2>5, BoundsAssumption DEF RUnread
    <3>2. skind[rread + 1] \in {"raw", "hello"}
      BY <2>5, <3>1 DEF ServerInv, SKinds
    <3>3. skind[rread + 1] = "hello" => NoReplies
      BY <3>1 DEF ServerInv, Sniffing
    <3>4. skind[rread + 1] = "raw" => NoneLeft
      BY <3>1 DEF NoneLeft
    <3> QED BY <1>2, <2>2, <3>2, <3>3, <3>4 DEF Excused
  <2> QED BY <1>5, <2>3, <2>4, <2>5 DEF RLLoopEnd
<1>6. CASE RLMalformed
  <2>1. /\ rread + 1 \in 1..MaxS /\ rread' = rread + 1
        /\ sfate' = [sfate EXCEPT ![rread + 1] = "bad"]
    BY <1>6, BoundsAssumption DEF RLMalformed, ReadingResponse, RUnread, RConsume
  <2>2. rread' \in 1..rread' /\ sfate'[rread'] = "bad"
    BY <2>1
  <2> QED BY <2>2 DEF NoneLeft
<1>7. CASE RLForward
  <2>1. ~CanWriteL /\ UNCHANGED l
    BY <1>7 DEF RLForward, ReadingResponse
  <2>2. ~CanWriteL'
    BY <1>1, <2>1 DEF CanWriteL
  <2> QED BY <2>2 DEF NoneLeft
<1>8. CASE RLReturn
  <2>1. rl = "ret" /\ ~skipped /\ UNCHANGED <<l, r, sfate, rread, rrest>>
    BY <1>8 DEF RLReturn, shared
  <2>2. NoneLeft' = NoneLeft
    BY <1>1, <2>1 DEF NoneLeft, CanWriteL
  <2> QED BY <1>2, <2>1, <2>2 DEF Explained
<1>9. CASE RLCopy
  <2>1. rl = "raw" /\ CanWriteL /\ UNCHANGED <<l, r>> /\ (rrest \/ RUnread)
    BY <1>9 DEF RLCopy
  <2>2. CASE rrest
    <3>1. rread \in 1..MaxS /\ rread' = rread /\ sfate' = [sfate EXCEPT ![rread] = "leaked"]
      <4>1. rread \in 1..MaxS
        BY <2>2, BoundsAssumption DEF InOrder
      <4>2. rread' = rread /\ sfate' = [sfate EXCEPT ![rread] = "leaked"]
        BY <1>9, <2>1, <2>2 DEF RLCopy, RCopyNext
      <4> QED BY <4>1, <4>2
    <3>2. rread \in 1..rread' /\ sfate'[rread] = "leaked"
      BY <3>1
    <3> QED BY <3>2 DEF NoneLeft
  <2>3. CASE ~rrest
    <3>1. RUnread /\ rread' = rread + 1 /\ \A k \in 1..rread : sfate'[k] = sfate[k]
      <4>1. PICK f : sfate' = [sfate EXCEPT ![rread + 1] = f] /\ rread' = rread + 1
        BY <1>9, <2>1, <2>3 DEF RLCopy, RCopyNext, RConsume
      <4>2. \A k \in 1..rread : k \in 1..MaxS /\ k # rread + 1
        BY BoundsAssumption
      <4> QED BY <2>1, <2>3, <4>1, <4>2
    <3>2. NoneLeft => NoneLeft'
      BY <1>1, <2>1, <2>3, <3>1 DEF NoneLeft, RUnread
    <3> QED BY <1>2, <2>1, <3>2 DEF Explained
  <2> QED BY <2>2, <2>3
<1> QED
  <2>1. RLDrop \/ RLSniffResponse => rl' \in {"loop", "read"}
    BY DEF RLDrop, RLSniffResponse
  <2>2. RLReject => rl' = "ret" /\ skipped'
    BY DEF RLReject
  <2>3. RLCopyEnd => rl' = "done"
    BY DEF RLCopyEnd
  <2> QED BY <1>4, <1>5, <1>6, <1>7, <1>8, <1>9, <2>1, <2>2, <2>3 DEF RLNext

LEMMA RuleStepRL ==
    ASSUME TypeInv, SniffFirst, MitmInv, ClientInv, ServerInv, RuleInv, RLNext,
           setup.mode = "RULE_RESP"
    PROVE  RuleInv'
<1> USE BoundsAssumption DEF TypeInv, TypeOK, RuleInv
<1>1. /\ UNCHANGED <<setup, lr, mitmed, protocol, pending, kind, csent, skind, ssent, cliEnd, srvEnd>>
      /\ l' = l \/ rl' = "done"
  BY DEF RLNext, RLSniffDone, RLLoopEnd, RLSniffResponse, RLMalformed, RLForward, RLDrop, RLReject, RLReturn,
     RLCopy, RLCopyEnd, ReadingResponse, shared, lvars, client, server, ends
<1>2. ~Sniffing
  <2>1. rl = "wait" => pending = 0
    BY DEF RLNext, RLSniffDone, RLLoopEnd, RLSniffResponse, RLMalformed, RLForward, RLDrop, RLReject, RLReturn,
       RLCopy, RLCopyEnd, ReadingResponse
  <2> QED BY <2>1 DEF Waits, MitmInv, Sniffing
<1>3. Sniffing' = Sniffing /\ Excused' = Excused /\ Upgraded' = Upgraded
  BY <1>1 DEF Sniffing, Excused, NoReplies, Opaque, Upgraded, IsHTTP
<1>4. InOrder'
  <2>1. CASE UNCHANGED <<sfate, rread, rrest>>
    BY <2>1 DEF InOrder
  <2>2. CASE /\ rrest /\ ~rrest' /\ rread' = rread
             /\ sfate' = [sfate EXCEPT ![rread] = "leaked"]
    BY <2>2 DEF InOrder
  <2>3. ASSUME NEW f \in SFates, rread' = rread + 1, sfate' = [sfate EXCEPT ![rread + 1] = f]
        PROVE  InOrder'
    BY <2>3 DEF InOrder
  <2> QED BY <2>1, <2>2, <2>3, RLReads
<1>5. Waits'
  BY <1>2, <1>3 DEF Waits
<1>6. Hearing'
  <2>1. rl # "done"
    BY DEF RLNext, RLSniffDone, RLLoopEnd, RLSniffResponse, RLMalformed, RLForward, RLDrop, RLReject, RLReturn,
       RLCopy, RLCopyEnd, ReadingResponse
  <2> QED BY <1>1, <1>3, <2>1 DEF Hearing
<1>7. Released'
  <2>1. rl' \in {"wait", "loop", "read"} => rl \in {"wait", "loop", "read"}
    BY DEF RLNext, RLSniffDone, RLLoopEnd, RLSniffResponse, RLMalformed, RLForward, RLDrop, RLReject, RLReturn,
       RLCopy, RLCopyEnd, ReadingResponse
  <2>2. rl = "wait" /\ rl' \in {"loop", "read"} => IsHTTP(protocol)
    BY DEF RLNext, RLSniffDone, RLLoopEnd, RLSniffResponse, RLMalformed, RLForward, RLDrop, RLReject, RLReturn,
       RLCopy, RLCopyEnd, ReadingResponse
  <2> QED BY <1>1, <1>3, <2>1, <2>2 DEF Released, IsHTTP
<1>8. Explained'
  BY <1>2, RLExplains DEF Explained
<1>9. UnevaluatedHasCause'
  <2> SUFFICES ASSUME NEW j \in 1..MaxS, sfate'[j] = "raw", skind[j] \in Responses
               PROVE  \/ \E k \in 1..MaxS : k < j /\ sfate'[k] \in {"leaked", "bad"}
                      \/ ~IsHTTP(protocol) /\ (cliEnd # "open" \/ Upgraded)
    BY <1>1, <1>3 DEF UnevaluatedHasCause, IsHTTP
  <2>1. \A k \in 1..MaxS : sfate[k] \in {"leaked", "bad"} => sfate'[k] \in {"leaked", "bad"}
    <3>1. CASE UNCHANGED <<sfate, rread, rrest>>
      BY <3>1
    <3>2. CASE sfate' = [sfate EXCEPT ![rread] = "leaked"]
      BY <3>2
    <3>3. ASSUME NEW f \in SFates, sfate' = [sfate EXCEPT ![rread + 1] = f], rread < ssent
          PROVE  \A k \in 1..MaxS : sfate[k] \in {"leaked", "bad"} => sfate'[k] \in {"leaked", "bad"}
      <4>1. sfate[rread + 1] = "sent"
        BY <3>3 DEF InOrder
      <4> QED BY <3>3, <4>1
    <3> QED BY <3>1, <3>2, <3>3, RLReads
  <2>2. CASE sfate[j] = "raw"
    BY <2>1, <2>2 DEF UnevaluatedHasCause
  <2>3. CASE sfate[j] # "raw"
    <3>1. j = rread + 1 /\ rl = "raw" /\ CanWriteL /\ ~rrest /\ RUnread
      <4>1. CASE UNCHANGED <<sfate, rread, rrest>>
        BY <2>3, <4>1
      <4>2. CASE sfate' = [sfate EXCEPT ![rread] = "leaked"]
        BY <2>3, <4>2
      <4>3. ASSUME NEW f \in SFates, sfate' = [sfate EXCEPT ![rread + 1] = f], ~rrest,
                   f = "raw" => rl = "raw" /\ CanWriteL /\ RUnread
            PROVE  j = rread + 1 /\ rl = "raw" /\ CanWriteL /\ ~rrest /\ RUnread
        BY <2>3, <4>3
      <4> QED BY <4>1, <4>2, <4>3, RLReads
    <3>2. ~NoReplies
      BY DEF NoReplies, ServerInv
    <3>3. CASE Excused
      BY <3>2, <3>3 DEF Excused
    <3>4. CASE NoneLeft
      <4>1. \A k \in 1..ssent : k <= rread + 1 => skind[k] # "raw"
        <5> SUFFICES ASSUME NEW k \in 1..ssent, k <= rread + 1, skind[k] = "raw"
                     PROVE  FALSE
          OBVIOUS
        <5>1. k \in 1..MaxS /\ k # j
          BY DEF Responses
        <5>2. k < j
          BY <3>1, <5>1
        <5> QED BY <5>1, <5>2 DEF ServerInv
      <4>2. PICK k \in 1..rread : sfate[k] \in {"leaked", "bad"}
        BY <3>1, <3>4, <4>1 DEF NoneLeft, RUnread
      <4> QED BY <2>1, <3>1, <4>2
    <3> QED BY <3>1, <3>3, <3>4 DEF Explained
  <2> QED BY <2>2, <2>3
<1> QED
  BY <1>1, <1>4, <1>5, <1>6, <1>7, <1>8, <1>9

LEMMA RuleStepPeers ==
    ASSUME TypeInv, SniffFirst, ClientInv, ServerInv, RuleInv, Peers \/ UNCHANGED vars,
           setup.mode = "RULE_RESP"
    PROVE  RuleInv'
<1> USE BoundsAssumption DEF TypeInv, TypeOK, RuleInv
<1>1. /\ UNCHANGED <<setup, lr, rl, skipped, mitmed, protocol, l, r, sfate, rread, rrest>>
      /\ (cliEnd # "open" => cliEnd' # "open") /\ (cliEnd = "gone" => cliEnd' = "gone")
      /\ srvEnd # "open" => srvEnd' # "open" /\ ssent' = ssent
      /\ ssent' >= ssent
      /\ \A j \in 1..ssent : skind'[j] = skind[j]
  BY DEF Peers, ClientSend, ServerSend, ClientEnd, ServerEnd, Same, shared, lvars, rvars, client,
     server, ends, vars, Ends
<1>2. Upgraded => Upgraded'
  <2>1. csent' >= csent /\ csent' \in Nat /\ \A i \in 1..csent : kind'[i] = kind[i]
    BY DEF Peers, ClientSend, ServerSend, ClientEnd, ServerEnd, Same, client, vars
  <2> QED BY <2>1 DEF Upgraded
<1>3. UNCHANGED <<Sniffing, NoReplies>> /\ (Excused => Excused')
  BY <1>1, <1>2 DEF Sniffing, NoReplies, Opaque, Excused, IsHTTP
<1>4. InOrder' /\ Waits' /\ Hearing' /\ Released'
  BY <1>1, <1>3 DEF InOrder, Waits, Hearing, Released, IsHTTP
<1>5. NoneLeft => NoneLeft'
  <2>1. ~CanWriteL => ~CanWriteL'
    BY <1>1 DEF CanWriteL
  <2>2. ssent' \in Nat
    BY DEF Peers, ClientSend, ServerSend, ClientEnd, ServerEnd, Same, server, vars
  <2> QED BY <1>1, <2>1, <2>2 DEF NoneLeft
<1>6. Explained'
  BY <1>1, <1>3, <1>5 DEF Explained
<1>7. UnevaluatedHasCause'
  <2>1. \A j \in 1..MaxS : sfate[j] = "raw" => skind'[j] = skind[j]
    BY <1>1 DEF InOrder
  <2> QED BY <1>1, <1>2, <2>1 DEF UnevaluatedHasCause, IsHTTP
<1> QED
  BY <1>1, <1>4, <1>6, <1>7

(* With response rules, a response is relayed past them only for a reason:
   an earlier response was malformed or left an unread body, or the protocol
   left HTTP because the client ended its stream or upgraded.              *)
THEOREM UnevaluatedExplained == Spec => []UnevaluatedHasCause
<1> DEFINE AllInv == /\ TypeInv /\ SniffFirst /\ MitmInv
                     /\ ClientInv /\ ServerInv /\ RuleInv
<1>1. Init => ClientInv /\ ServerInv /\ RuleInv
  <2> SUFFICES ASSUME Init PROVE ClientInv /\ ServerInv /\ RuleInv
    OBVIOUS
  <2> USE BoundsAssumption DEF Init
  <2>1. ClientInv
    BY DEF ClientInv
  <2>2. ServerInv
    BY DEF ServerInv, Responses
  <2>3. RuleInv
    BY DEF RuleInv, InOrder, Waits, Hearing, Released, Explained, UnevaluatedHasCause, Sniffing,
       CopyOnly, Halves
  <2> QED BY <2>1, <2>2, <2>3
<1>2. Init => MitmInv /\ SniffFirst
  BY BoundsAssumption DEF Init, MitmInv, HandshakeUndisturbed, SniffFirst
<1>3. AllInv /\ [Next]_vars => AllInv'
  <2> SUFFICES ASSUME AllInv, [Next]_vars PROVE AllInv'
    OBVIOUS
  <2>1. TypeInv' /\ SniffFirst' /\ MitmInv' /\ ClientInv' /\ ServerInv'
    BY LRType, RLType, PeersType, StutterType, SniffStep, MitmStep, ClientStep, ServerStep DEF Next
  <2>2. RuleInv'
    <3>1. CASE setup.mode = "RULE_RESP"
      BY <3>1, RuleStepLR, RuleStepRL, RuleStepPeers DEF Next
    <3>2. CASE setup.mode # "RULE_RESP"
      BY <3>2, SetupFixed DEF RuleInv
    <3> QED BY <3>1, <3>2
  <2> QED BY <2>1, <2>2
<1>4. AllInv => UnevaluatedHasCause
  BY DEF RuleInv, UnevaluatedHasCause
<1> QED
  BY <1>1, <1>2, <1>3, <1>4, InitType, PTL DEF Spec

-----------------------------------------------------------------------------
(* The request loop is over for good: a message derailed it, or what is left
   will, or nothing is left.                                               *)
Derailed ==
    \/ \E i \in 1..lread : Derails(i)
    \/ lrest
    \/ lread < csent /\ kind[lread + 1] \notin {"get", "post"}
    \/ lread = csent /\ cliEnd # "open"
    \/ "rd" \notin l

(* HTTP was spoken on the connection, and the response rules may have met it. *)
Spoken == rl \in {"loop", "read"} \/ RejectedResponse \/ IsHTTP(protocol)

(* A response is only rejected together with Skipped; and once HTTP was
   spoken, the client-to-server side is past sniffing, and copies only if
   the loop was derailed.                                                  *)
LoopInv ==
    /\ RejectedResponse => skipped
    /\ Spoken => lr \in {"loop", "after", "ret", "raw", "served", "done"}
    /\ Spoken /\ (lr = "raw" \/ (lr = "ret" /\ ~skipped)) => Derailed

LEMMA DerailedStays ==
    ASSUME TypeInv, Derailed, UNCHANGED <<lread, lrest, fate>>,
           csent' \in Nat, csent <= csent', \A i \in 1..csent : kind'[i] = kind[i],
           cliEnd # "open" => cliEnd' # "open" /\ csent' = csent, l' \subseteq l
    PROVE  Derailed'
<1> USE BoundsAssumption DEF TypeInv, TypeOK, Derailed, Derails
<1>1. ASSUME NEW i \in 1..lread, Derails(i) PROVE Derailed'
  <2>1. i \in 1..csent
    OBVIOUS
  <2> QED BY <1>1, <2>1
<1>2. CASE lread < csent /\ kind[lread + 1] \notin {"get", "post"}
  <2>1. lread + 1 \in 1..csent
    BY <1>2
  <2> QED BY <1>2, <2>1
<1> QED BY <1>1, <1>2

(* How the loop ends: the sniffing of the next request fails or finds none. *)
LEMMA LoopEnds ==
    ASSUME TypeInv, LoopInv, LRLoopEOF \/ LRLoopNotHTTP \/ LRMalformed
    PROVE  LoopInv'
<1> USE BoundsAssumption DEF TypeInv, TypeOK
<1>1. /\ UNCHANGED <<rl, sfate, skipped, kind, csent, cliEnd, l>>
      /\ lr = "loop" /\ lr' = "ret"
  BY DEF LRLoopEOF, LRLoopNotHTTP, LRMalformed, ReadingRequest, shared, client, ends, rvars
<1>2. RejectedResponse' = RejectedResponse
  BY <1>1 DEF RejectedResponse
<1>3. Derailed'
  <2>1. CASE LRMalformed
    <3>1. PICK n \in 1..MaxC : n = lread + 1 /\ lread' = n /\ fate'[n] = "bad"
      BY <2>1 DEF LRMalformed, ReadingRequest, Peekable, Unread, Consume
    <3>2. n \in 1..lread' /\ Derails(n)'
      BY <3>1 DEF Derails
    <3> QED BY <3>2 DEF Derailed
  <2>2. CASE LRLoopEOF
    <3>1. UNCHANGED <<lread, lrest>> /\ PeekFails
      BY <2>2 DEF LRLoopEOF
    <3>2. \/ "rd" \notin l
          \/ cliEnd # "open" /\ lread = csent
          \/ lread < csent /\ kind[lread + 1] = "short"
      BY <3>1 DEF PeekFails, Peekable, Unread
    <3> QED BY <1>1, <3>1, <3>2 DEF Derailed
  <2>3. CASE LRLoopNotHTTP
    <3>1. /\ UNCHANGED <<lread, lrest>>
          /\ lrest \/ (lread < csent /\ kind[lread + 1] \notin Requests)
      BY <2>3 DEF LRLoopNotHTTP, Peekable, Unread
    <3> QED BY <1>1, <3>1 DEF Derailed, Requests
  <2> QED BY <2>1, <2>2, <2>3
<1>4. Spoken' => Spoken
  BY <1>1, <1>2 DEF Spoken, LRLoopEOF, LRLoopNotHTTP, LRMalformed, ReadingRequest, shared, IsHTTP
<1> QED BY <1>1, <1>2, <1>3, <1>4 DEF LoopInv

(* What the byte copy takes has a message that derailed the loop behind it. *)
LEMMA CopyDerails ==
    ASSUME TypeInv, LRCopy, Derailed
    PROVE  \E i \in 1..lread' : Derails(i)'
<1> USE BoundsAssumption DEF TypeInv, TypeOK
<1>1. UNCHANGED <<kind, csent>>
  BY DEF LRCopy, client
<1>2. CASE lrest
  <2>1. lread' = lread /\ lread \in 1..MaxC /\ fate'[lread] = "leaked"
    BY <1>2 DEF LRCopy, CopyNext, Heads, BodyHasHead
  <2>2. PICK n \in 1..MaxC : n = lread /\ fate'[n] = "leaked"
    BY <2>1
  <2>3. n \in 1..lread' /\ Derails(n)'
    BY <2>1, <2>2 DEF Derails
  <2> QED BY <2>3
<1>3. CASE ~lrest
  <2>1. /\ lread < csent /\ "rd" \in l /\ lread' = lread + 1
        /\ \E f \in {"raw", "lost"} : fate' = [fate EXCEPT ![lread + 1] = f]
    BY <1>3 DEF LRCopy, CopyNext, Consume, Unread
  <2>2. ASSUME NEW i \in 1..lread, Derails(i) PROVE \E j \in 1..lread' : Derails(j)'
    <3>1. i \in 1..lread' /\ Derails(i)'
      BY <1>1, <2>1, <2>2 DEF Derails
    <3> QED BY <3>1
  <2>3. ASSUME kind[lread + 1] \notin {"get", "post"} PROVE \E j \in 1..lread' : Derails(j)'
    <3>1. PICK n \in 1..MaxC : n = lread + 1 /\ lread' = n /\ kind'[n] \notin {"get", "post"}
      BY <1>1, <2>1, <2>3
    <3>2. n \in 1..lread' /\ Derails(n)'
      BY <3>1 DEF Derails
    <3> QED BY <3>2
  <2> QED BY <1>3, <2>1, <2>2, <2>3 DEF Derailed
<1> QED BY <1>2, <1>3

(* Only RLReject rejects. *)
LEMMA NotRejected ==
    ASSUME TypeInv, RLNext, ~RLReject, RejectedResponse'
    PROVE  RejectedResponse
<1>1. \/ sfate' = sfate
      \/ \E j \in Nat, f \in SFates \ {"rejected"} : sfate' = [sfate EXCEPT ![j] = f]
  <2>1. CASE RLCopy
    BY <2>1 DEF RLCopy, RCopyNext, RConsume, SFates, TypeInv, TypeOK
  <2>2. CASE RLMalformed \/ RLForward \/ RLDrop
    BY <2>2 DEF RLMalformed, RLForward, RLDrop, RConsume, SFates, TypeInv, TypeOK
  <2>3. CASE RLSniffDone \/ RLLoopEnd \/ RLSniffResponse \/ RLReturn \/ RLCopyEnd
    BY <2>3 DEF RLSniffDone, RLLoopEnd, RLSniffResponse, RLReturn, RLCopyEnd
  <2> QED BY <2>1, <2>2, <2>3 DEF RLNext
<1> QED BY <1>1, BoundsAssumption DEF RejectedResponse, TypeInv, TypeOK

LEMMA LoopStep == TypeInv /\ LoopInv /\ [Next]_vars => LoopInv'
<1> SUFFICES ASSUME TypeInv, LoopInv, [Next]_vars PROVE LoopInv'
  OBVIOUS
<1> USE BoundsAssumption DEF TypeInv, TypeOK
<1>1. CASE LRSniffEOF \/ LRSniffTLS \/ LRSniffRaw \/ LRMitmClient
  <2>1. ~Spoken /\ UNCHANGED <<rl, sfate, skipped>> /\ ~IsHTTP(protocol')
    BY <1>1 DEF LoopInv, Spoken, IsHTTP, LRSniffEOF, LRSniffTLS, LRSniffRaw, LRMitmClient, shared, rvars
  <2> QED BY <2>1 DEF LoopInv, Spoken, RejectedResponse
<1>2. CASE LRMitmServer
  <2>1. ~Spoken /\ UNCHANGED <<rl, skipped, protocol>>
    BY <1>2 DEF LoopInv, Spoken, LRMitmServer
  <2>2. sfate' = sfate \/ \E f \in {"mitm", "bad"} : sfate' = [sfate EXCEPT ![rread + 1] = f]
    BY <1>2 DEF LRMitmServer, RConsume
  <2>3. RejectedResponse' => RejectedResponse
    BY <2>2 DEF RejectedResponse
  <2> QED BY <2>1, <2>3 DEF LoopInv, Spoken, IsHTTP
<1>3. CASE LRSniffHTTP
  BY <1>3 DEF LoopInv, LRSniffHTTP, RejectedResponse, rvars
<1>4. CASE LRLoopEOF \/ LRLoopNotHTTP \/ LRMalformed
  BY <1>4, LoopEnds
<1>5. CASE LRForward
  <2>1. /\ UNCHANGED <<rl, sfate, protocol, kind>> /\ (skipped => skipped') /\ lr = "loop"
        /\ \/ lr' = "after"
           \/ lr' = "ret" /\ Consume("lost")
    BY <1>5 DEF LRForward, ReadingRequest, client, rvars
  <2>2. lr' = "ret" => Derailed'
    <3> SUFFICES ASSUME lr' = "ret" PROVE Derailed'
      OBVIOUS
    <3>1. PICK n \in 1..MaxC : n = lread + 1 /\ lread' = n /\ fate'[n] = "lost"
      BY <1>5, <2>1 DEF LRForward, ReadingRequest, Peekable, Unread, Consume
    <3>2. n \in 1..lread' /\ Derails(n)'
      BY <3>1 DEF Derails
    <3> QED BY <3>2 DEF Derailed
  <2>3. RejectedResponse' = RejectedResponse
    BY <2>1 DEF RejectedResponse
  <2> QED BY <2>1, <2>2, <2>3 DEF LoopInv, Spoken, IsHTTP
<1>6. CASE LRSwallow \/ LRReject
  <2>1. /\ UNCHANGED <<rl, sfate, protocol>> /\ (skipped => skipped')
        /\ lr' = "loop" \/ (lr' = "ret" /\ skipped')
    BY <1>6 DEF LRSwallow, LRReject, ReadingRequest, rvars
  <2>2. RejectedResponse' = RejectedResponse
    BY <2>1 DEF RejectedResponse
  <2> QED BY <2>1, <2>2 DEF LoopInv, Spoken
<1>7. CASE LRAfterWrite
  <2>1. UNCHANGED <<rl, sfate, skipped, lread, fate, lrest, kind, csent, cliEnd, l>> /\ lr = "after"
    BY <1>7 DEF LRAfterWrite, client, ends, rvars
  <2>2. RejectedResponse' = RejectedResponse
    BY <2>1 DEF RejectedResponse
  <2>3. CASE lr' = "loop" \/ skipped
    BY <1>7, <2>1, <2>2, <2>3 DEF LoopInv, Spoken, LRAfterWrite, IsHTTP
  <2>4. CASE kind[lread] = "ws"
    <3>1. Spoken' => rl \in {"loop", "read"} \/ RejectedResponse
      BY <1>7, <2>1, <2>2, <2>4 DEF Spoken, LRAfterWrite, IsHTTP
    <3>2. lread # 0
      BY <2>1 DEF Heads, AfterReads
    <3>3. PICK n \in 1..MaxC : n = lread /\ kind'[n] = "ws"
      BY <2>1, <2>4, <3>2
    <3>5. n \in 1..lread' /\ Derails(n)'
      BY <2>1, <3>3 DEF Derails
    <3>4. Derailed'
      BY <3>5 DEF Derailed
    <3> QED BY <1>7, <2>1, <2>2, <3>1, <3>4 DEF LoopInv, LRAfterWrite, Spoken
  <2> QED BY <1>7, <2>3, <2>4 DEF LRAfterWrite
<1>8. CASE LRReturn
  <2>1. /\ UNCHANGED <<rl, sfate, skipped, protocol, lread, fate, lrest, kind, csent, cliEnd>>
        /\ lr = "ret" /\ l' \subseteq l
        /\ lr' = "served" \/ (lr' = "raw" /\ ~skipped)
    BY <1>8 DEF LRReturn, CloseLR, client, ends, rvars
  <2>2. RejectedResponse' = RejectedResponse
    BY <2>1 DEF RejectedResponse
  <2>3. Derailed => Derailed'
    BY <2>1, DerailedStays
  <2> QED BY <2>1, <2>2, <2>3 DEF LoopInv, Spoken
<1>9. CASE LRCopy
  <2>1. /\ UNCHANGED <<rl, sfate, skipped, protocol, kind, csent>>
        /\ lr = "raw" /\ lr' \in {"raw", "served"}
    BY <1>9 DEF LRCopy, shared, client, rvars
  <2>2. RejectedResponse' = RejectedResponse
    BY <2>1 DEF RejectedResponse
  <2>3. Derailed => \E i \in 1..lread' : Derails(i)'
    BY <1>9, CopyDerails
  <2> QED BY <2>1, <2>2, <2>3 DEF LoopInv, Spoken, Derailed
<1>10. CASE LRCopyEnd \/ LRServed
  BY <1>10 DEF LRCopyEnd, LRServed, LoopInv, Spoken, RejectedResponse, shared, rvars
<1>11. CASE RLNext
  <2>1. /\ UNCHANGED <<lr, protocol, lread, fate, lrest, kind, csent, cliEnd>> /\ l' \subseteq l
        /\ skipped => skipped'
    BY <1>11 DEF RLNext, RLSniffDone, RLLoopEnd, RLSniffResponse, RLMalformed, RLForward, RLDrop,
       RLReject, RLReturn, RLCopy, RLCopyEnd, CloseRL, ReadingResponse, shared, client, ends, lvars
  <2>2. Spoken' => Spoken
    <3>1. CASE RLReject
      BY <3>1 DEF RLReject, ReadingResponse, Spoken
    <3>2. CASE ~RLReject
      <4>1. RejectedResponse' => RejectedResponse
        BY <1>11, <3>2, NotRejected
      <4>2. rl' \in {"loop", "read"} => rl \in {"loop", "read"} \/ IsHTTP(protocol)
        BY <1>11 DEF RLNext, RLSniffDone, RLLoopEnd, RLSniffResponse, RLMalformed, RLForward, RLDrop,
           RLReject, RLReturn, RLCopy, RLCopyEnd, ReadingResponse
      <4> QED BY <2>1, <4>1, <4>2 DEF Spoken, IsHTTP
    <3> QED BY <3>1, <3>2
  <2>3. RejectedResponse' => skipped'
    <3>1. CASE RLReject
      BY <3>1 DEF RLReject
    <3>2. CASE ~RLReject
      BY <1>11, <2>1, <3>2, NotRejected DEF LoopInv
    <3> QED BY <3>1, <3>2
  <2>4. Derailed => Derailed'
    BY <2>1, DerailedStays
  <2> QED BY <2>1, <2>2, <2>3, <2>4 DEF LoopInv
<1>12. CASE Peers
  <2>1. UNCHANGED <<lr, rl, skipped, protocol, sfate, lread, lrest, fate, l>>
    BY <1>12 DEF Peers, ClientSend, ServerSend, ClientEnd, ServerEnd, Same, lvars, rvars, shared
  <2>2. RejectedResponse' = RejectedResponse
    BY <2>1 DEF RejectedResponse
  <2>3. /\ csent' \in Nat /\ csent <= csent' /\ \A i \in 1..csent : kind'[i] = kind[i]
        /\ cliEnd # "open" => cliEnd' # "open" /\ csent' = csent
    BY <1>12 DEF Peers, ClientSend, ServerSend, ClientEnd, ServerEnd, Same, client, ends
  <2>4. Derailed => Derailed'
    BY <2>1, <2>3, DerailedStays
  <2> QED BY <2>1, <2>2, <2>4 DEF LoopInv, Spoken
<1>13. CASE UNCHANGED vars
  BY <1>13 DEF vars, LoopInv, Spoken, RejectedResponse, Derailed, Derails, IsHTTP
<1> QED
  BY <1>1, <1>2, <1>3, <1>4, <1>5, <1>6, <1>7, <1>8, <1>9, <1>10, <1>11, <1>12, <1>13
  DEF Next, LRNext

(* What came late was the one request the loop had in hand, which then ends
   at Skipped, or was copied after the loop was derailed.                  *)
LateInv ==
    /\ late \subseteq 1..lread
    /\ late # {} => skipped
    /\ \A k \in late :
          \/ fate[k] = "forwarded" /\ late = {k} /\ lr \in {"after", "ret", "served", "done"}
          \/ /\ fate[k] \in {"raw", "leaked"} /\ \E i \in 1..k : Derails(i)
             /\ lr \in {"raw", "served", "done"}

LEMMA LateStep == TypeInv /\ LoopInv /\ LoopInv' /\ LateInv /\ [Next]_vars => LateInv'
<1> SUFFICES ASSUME TypeInv, LoopInv, LoopInv', LateInv, [Next]_vars PROVE LateInv'
  OBVIOUS
<1> USE BoundsAssumption DEF TypeInv, TypeOK
<1>1. CASE LRForward
  <2>1. lr = "loop" /\ late = {}
    BY <1>1 DEF LRForward, ReadingRequest, LateInv
  <2>2. CASE late' = {}
    BY <2>2 DEF LateInv
  <2>3. CASE late' # {}
    <3>1. /\ RejectedResponse /\ late' = {lread + 1} /\ lread < csent
          /\ Consume("forwarded") /\ lr' = "after" /\ (skipped => skipped')
      BY <1>1, <2>1, <2>3 DEF LRForward, NoteLate, ReadingRequest, Peekable, Unread
    <3>2. fate'[lread + 1] = "forwarded" /\ lread' = lread + 1 /\ lread + 1 \in 1..MaxC
      BY <3>1 DEF Consume
    <3> QED BY <3>1, <3>2 DEF LateInv, LoopInv
  <2> QED BY <2>2, <2>3
<1>2. CASE LRCopy
  <2>1. /\ lr = "raw" /\ UNCHANGED <<kind, skipped, sfate>> /\ lr' \in {"raw", "served"}
    BY <1>2 DEF LRCopy, shared, client, rvars
  <2>2. PICK n \in 1..MaxC, f \in {"raw", "leaked", "lost"} :
           /\ fate' = [fate EXCEPT ![n] = f] /\ lread' \in {n, lread} /\ lread' = n
           /\ n \in {lread, lread + 1}
           /\ f # "lost" => late' \in {late, late \cup {n}}
           /\ f = "lost" => late' = late
           /\ n = lread => f = "leaked"
           /\ late' # late => RejectedResponse
    <3>1. CASE lrest
      <4>1. lread \in 1..MaxC /\ fate' = [fate EXCEPT ![lread] = "leaked"] /\ lread' = lread
        BY <1>2, <3>1 DEF LRCopy, CopyNext, Heads, BodyHasHead
      <4>2. late' \in {late, late \cup {lread}} /\ (late' # late => RejectedResponse)
        BY <1>2, <3>1 DEF LRCopy, NoteLate
      <4> QED BY <4>1, <4>2
    <3>2. CASE ~lrest
      <4>1. /\ lread + 1 \in 1..MaxC /\ lread' = lread + 1
            /\ \/ fate' = [fate EXCEPT ![lread + 1] = "raw"]
                  /\ late' \in {late, late \cup {lread + 1}} /\ (late' # late => RejectedResponse)
               \/ fate' = [fate EXCEPT ![lread + 1] = "lost"] /\ late' = late
        BY <1>2, <3>2 DEF LRCopy, CopyNext, Consume, NoteLate, Unread
      <4> QED BY <4>1
    <3> QED BY <3>1, <3>2
  <2>3. late' \subseteq late \cup {n} /\ late' \subseteq 1..lread'
    <3>1. late' \in {late, late \cup {n}} /\ late \subseteq 1..lread
      BY <2>2 DEF LateInv
    <3>2. 1..lread \subseteq 1..lread' /\ n \in 1..lread'
      BY <2>2
    <3> QED BY <3>1, <3>2
  <2>4. ASSUME NEW k \in late'
        PROVE  fate'[k] \in {"raw", "leaked"} /\ \E i \in 1..k : Derails(i)'
    <3>1. ASSUME NEW i \in 1..MaxC, Derails(i) PROVE Derails(i)' \/ i > lread
      BY <2>1, <2>2, <3>1 DEF Derails
    <3>2. CASE k \in late
      <4>1. k <= lread /\ k \in 1..MaxC /\ fate[k] \in {"raw", "leaked"}
        BY <2>1, <3>2 DEF LateInv
      <4>2. PICK i \in 1..k : Derails(i)
        BY <2>1, <3>2 DEF LateInv
      <4>3. fate'[k] \in {"raw", "leaked"}
        BY <2>2, <4>1
      <4> QED BY <3>1, <4>1, <4>2, <4>3
    <3>3. CASE k \notin late
      <4>1. k = n /\ RejectedResponse /\ f # "lost"
        BY <2>2, <3>3
      <4>2. Derailed
        BY <2>1, <4>1 DEF LoopInv, Spoken
      <4>3. \E i \in 1..lread' : Derails(i)'
        BY <1>2, <4>2, CopyDerails
      <4> QED BY <2>2, <4>1, <4>3
    <3> QED BY <3>2, <3>3
  <2>5. late' # {} => skipped'
    BY <2>1, <2>2 DEF LateInv, LoopInv
  <2>6. lr' \in {"raw", "served", "done"}
    BY <2>1
  <2>7. \A k \in late' : fate'[k] \in {"raw", "leaked"} /\ \E i \in 1..k : Derails(i)'
    BY <2>4
  <2> HIDE <1>2, <2>2
  <2> QED BY <2>3, <2>5, <2>6, <2>7 DEF LateInv
<1>3. CASE LRNext /\ ~LRForward /\ ~LRCopy
  <2>0. UNCHANGED late
    <3>1. LRSniffEOF \/ LRSniffTLS \/ LRSniffRaw \/ LRSniffHTTP \/ LRMitmClient \/ LRMitmServer => UNCHANGED late
      BY DEF LRSniffEOF, LRSniffTLS, LRSniffRaw, LRSniffHTTP, LRMitmClient, LRMitmServer
    <3>2. LRLoopEOF \/ LRLoopNotHTTP \/ LRMalformed \/ LRSwallow \/ LRReject => UNCHANGED late
      BY DEF LRLoopEOF, LRLoopNotHTTP, LRMalformed, LRSwallow, LRReject
    <3>3. LRAfterWrite \/ LRReturn \/ LRCopyEnd \/ LRServed => UNCHANGED late
      BY DEF LRAfterWrite, LRReturn, LRCopyEnd, LRServed
    <3> QED BY <1>3, <3>1, <3>2, <3>3 DEF LRNext
  <2>1. UNCHANGED <<late, kind>> /\ (skipped => skipped')
    BY <1>3, <2>0, LRControl
  <2>2. late = {} \/ UNCHANGED <<fate, lread>>
    BY <1>3 DEF LRNext, LRSniffEOF, LRSniffTLS, LRSniffRaw, LRSniffHTTP, LRMitmClient, LRMitmServer,
       LRLoopEOF, LRLoopNotHTTP, LRMalformed, LRSwallow, LRReject, LRAfterWrite, LRReturn,
       LRCopyEnd, LRServed, ReadingRequest, LateInv
  <2>3. late # {} => /\ lr \in {"after", "ret", "served", "done"} => lr' \in {"after", "ret", "served", "done"}
                     /\ lr \in {"raw", "served", "done"} => lr' \in {"raw", "served", "done"}
    BY <1>3 DEF LRNext, LRSniffEOF, LRSniffTLS, LRSniffRaw, LRSniffHTTP, LRMitmClient, LRMitmServer,
       LRLoopEOF, LRLoopNotHTTP, LRMalformed, LRSwallow, LRReject, LRAfterWrite, LRReturn,
       LRCopyEnd, LRServed, ReadingRequest, LateInv
  <2>4. CASE late = {}
    BY <2>1, <2>4 DEF LateInv
  <2>5. CASE late # {}
    BY <2>1, <2>2, <2>3, <2>5 DEF LateInv, Derails
  <2> QED BY <2>4, <2>5
<1>4. CASE RLNext
  <2>1. UNCHANGED <<late, lr, lread, fate, kind>> /\ (skipped => skipped')
    BY <1>4 DEF RLNext, RLSniffDone, RLLoopEnd, RLSniffResponse, RLMalformed, RLForward, RLDrop,
       RLReject, RLReturn, RLCopy, RLCopyEnd, ReadingResponse, shared, client, lvars
  <2> QED BY <2>1 DEF LateInv, Derails
<1>5. CASE Peers
  <2>1. UNCHANGED <<late, lr, lread, fate, skipped>> /\ \A i \in 1..csent : kind'[i] = kind[i]
    BY <1>5 DEF Peers, ClientSend, ServerSend, ClientEnd, ServerEnd, Same, lvars, shared, client
  <2>2. ASSUME NEW k \in late, NEW i \in 1..k, Derails(i) PROVE Derails(i)'
    BY <2>1, <2>2 DEF LateInv, Derails
  <2> QED BY <2>1, <2>2 DEF LateInv
<1>6. CASE UNCHANGED vars
  BY <1>6 DEF vars, LateInv, Derails
<1> QED
  BY <1>1, <1>2, <1>3, <1>4, <1>5, <1>6 DEF Next

(* After a rejected response the server gets one more request at most, the
   one the loop had in hand, unless a message derailed the loop into the
   byte copy, which does not look at Skipped (server.go, ProcessLR).       *)
THEOREM LateTrafficHasCause == Spec => []LateHasCause
<1>1. Init => LoopInv /\ LateInv
  BY DEF Init, LoopInv, LateInv, Spoken, RejectedResponse, IsHTTP
<1>2. LateInv => LateHasCause
  BY DEF LateInv, LateHasCause
<1> QED
  BY <1>1, <1>2, LoopStep, LateStep, TypeInvariant, PTL DEF Spec

-----------------------------------------------------------------------------
(* Connections: the cache of destinations. *)

Stages == {"tls?", "hello", "http?", "loop", "plain", "copy", "closed"}
Conns == [src : Srcs, dst : Dests, app : {"tls", "http", "other"}, known : BOOLEAN, white : BOOLEAN,
          mitm : BOOLEAN, st : Stages]
Causes(e, d) == conn[e].dst = d /\ (conn[e].app # "http" \/ conn[e].white)
CacheHasCause == \A d \in cache : \E e \in DOMAIN conn : Causes(e, d)
CInv == conn \in Seq(Conns) /\ CacheHasCause /\ UninspectedHasCause

LEMMA CInvInit == RecordsInit => CInv
  BY DEF RecordsInit, CInv, CacheHasCause, UninspectedHasCause, Conns

(* A connection that is there keeps its addresses, and its causes stay. *)
LEMMA Moves ==
    ASSUME CInv, NEW c \in DOMAIN conn, NEW rec \in Conns, conn' = [conn EXCEPT ![c] = rec], cfg' = cfg,
           rec.dst = conn[c].dst, rec.app = conn[c].app, rec.known = conn[c].known, conn[c].white => rec.white,
           NEW D, cache' \subseteq cache \cup D,
           D = {} \/ (D = {conn[c].dst} /\ (rec.app # "http" \/ rec.white))
    PROVE  CInv'
<1>1. conn' \in Seq(Conns) /\ DOMAIN conn' = DOMAIN conn /\ DOMAIN conn = 1..Len(conn) /\ Len(conn) \in Nat
  BY DEF CInv
<1>2. \A e \in DOMAIN conn : \A d : Causes(e, d) => Causes(e, d)'
  BY <1>1 DEF CInv, Causes
<1>3. CacheHasCause'
  BY <1>1, <1>2 DEF CInv, CacheHasCause, Causes
<1>4. \A e \in DOMAIN conn : conn'[e].dst = conn[e].dst /\ conn'[e].known = conn[e].known
  BY <1>1 DEF CInv
<1>5. ASSUME NEW k \in DOMAIN conn', conn'[k].known
      PROVE  cfg'.mode = "GLOBAL" /\ \E e \in 1..k-1 : Causes(e, conn[k].dst)'
  <2>1. PICK e \in 1..k-1 : Causes(e, conn[k].dst)
    BY <1>1, <1>4, <1>5 DEF CInv, UninspectedHasCause, Causes
  <2>2. e \in DOMAIN conn
    BY <1>1, <2>1
  <2> QED
    BY <1>1, <1>2, <1>4, <1>5, <2>1, <2>2 DEF CInv, UninspectedHasCause, Causes
<1>6. UninspectedHasCause'
  BY <1>1, <1>4, <1>5 DEF UninspectedHasCause, Causes
<1> QED
  BY <1>1, <1>3, <1>6 DEF CInv
(* A new connection is uninspected under GLOBAL only when its destination is
   in the cache.                                                            *)
LEMMA Joins ==
    ASSUME CInv, NEW rec \in Conns, conn' = Append(conn, rec), cfg' = cfg, cache' = cache,
           rec.known => cfg.mode = "GLOBAL" /\ rec.dst \in cache
    PROVE  CInv'
<1>1. /\ conn' \in Seq(Conns) /\ Len(conn) \in Nat
      /\ DOMAIN conn = 1..Len(conn) /\ DOMAIN conn' = 1..Len(conn)+1
  BY DEF CInv
<1>2. (\A e \in DOMAIN conn : conn'[e] = conn[e]) /\ conn'[Len(conn)+1] = rec
  BY DEF CInv
<1>3. CacheHasCause'
  BY <1>1, <1>2 DEF CInv, CacheHasCause, Causes
<1>4. ASSUME NEW k \in DOMAIN conn', conn'[k].known
      PROVE  /\ cfg'.mode = "GLOBAL"
             /\ \E e \in 1..k-1 : /\ conn'[e].dst = conn'[k].dst
                                  /\ conn'[e].app # "http" \/ conn'[e].white
  <2>1. CASE k \in DOMAIN conn
    <3>1. PICK e \in 1..k-1 : Causes(e, conn[k].dst)
      BY <1>2, <1>4, <2>1 DEF CInv, UninspectedHasCause, Causes
    <3>2. conn'[k] = conn[k] /\ conn'[e] = conn[e]
      BY <1>1, <1>2, <2>1, <3>1
    <3> QED
      BY <1>4, <2>1, <3>1, <3>2 DEF CInv, UninspectedHasCause, Causes
  <2>2. CASE k = Len(conn) + 1
    <3>1. PICK e \in DOMAIN conn : Causes(e, rec.dst)
      BY <1>2, <1>4, <2>2 DEF CInv, CacheHasCause
    <3>2. conn'[k] = rec /\ conn'[e] = conn[e] /\ e \in 1..k-1
      BY <1>1, <1>2, <2>2, <3>1
    <3> QED
      BY <1>4, <3>1, <3>2 DEF Causes
  <2> QED
    BY <1>1, <2>1, <2>2
<1>5. UninspectedHasCause'
  BY <1>4 DEF UninspectedHasCause
<1> QED
  BY <1>1, <1>3, <1>5 DEF CInv

(* What does not touch the connections may only forget destinations. *)
LEMMA Forgets ==
    ASSUME CInv, UNCHANGED <<cfg, conn>>, cache' \subseteq cache
    PROVE  CInv'
  BY DEF CInv, CacheHasCause, UninspectedHasCause, Causes

LEMMA WorkKeeps == ASSUME CInv, NEW c \in DOMAIN conn, Work(c) PROVE CInv'
<1> USE DEF NoMore
<1>1. conn[c] \in Conns
  BY DEF CInv
<1>2. \A st \in Stages : [conn[c] EXCEPT !.st = st] \in Conns
  BY <1>1 DEF Conns
<1>3. ASSUME NEW st \in Stages, Moved(c, st), cfg' = cfg, NEW D, cache' \subseteq cache \cup D,
             D = {} \/ (D = {conn[c].dst} /\ conn[c].app # "http")
      PROVE  CInv'
  <2>1. PICK rec \in Conns : rec = [conn[c] EXCEPT !.st = st]
    BY <1>2
  <2>2. conn' = [conn EXCEPT ![c] = rec]
    BY <1>3, <2>1 DEF Moved
  <2>3. rec.dst = conn[c].dst /\ rec.app = conn[c].app /\ rec.known = conn[c].known /\ rec.white = conn[c].white
    BY <1>1, <2>1 DEF Conns
  <2> QED
    BY ONLY CInv, c \in DOMAIN conn, <1>3, <2>2, <2>3, Moves
<1>4. CASE SniffTLS(c)
  <2>1. CASE conn[c].app = "tls"
    <3>1. cache' = cache \cup {conn[c].dst} /\ cfg' = cfg /\ conn[c].app # "http"
      BY <1>4, <2>1 DEF SniffTLS
    <3>2. Moved(c, "hello") \/ Moved(c, "http?")
      BY <1>4, <2>1 DEF SniffTLS
    <3> QED
      BY <1>3, <3>1, <3>2 DEF Stages
  <2>2. CASE conn[c].app # "tls"
    <3>1. cache' \subseteq cache \cup {} /\ cfg' = cfg /\ Moved(c, "http?")
      BY <1>4, <2>2 DEF SniffTLS
    <3> QED
      BY <1>3, <3>1 DEF Stages
  <2> QED
    BY <2>1, <2>2
<1>5. CASE HandleTLS(c)
  <2>1. CASE Moved(c, "copy")
    BY <1>3, <1>5, <2>1 DEF HandleTLS, Stages
  <2>2. CASE conn' = [conn EXCEPT ![c].st = "http?", ![c].mitm = TRUE]
    <3>1. PICK rec \in Conns : rec = [conn[c] EXCEPT !.st = "http?", !.mitm = TRUE]
      BY <1>1 DEF Conns, Stages
    <3>2. conn' = [conn EXCEPT ![c] = rec]
      BY <2>2, <3>1 DEF CInv
    <3>3. rec.dst = conn[c].dst /\ rec.app = conn[c].app /\ rec.known = conn[c].known /\ rec.white = conn[c].white
      BY <1>1, <3>1 DEF Conns
    <3>4. cfg' = cfg /\ cache' \subseteq cache \cup {}
      BY <1>5 DEF HandleTLS
    <3> QED
      BY <3>2, <3>3, <3>4, Moves
  <2> QED
    BY <1>5, <2>1, <2>2 DEF HandleTLS
<1>6. CASE SniffHTTPRequest(c)
  <2>1. /\ cfg' = cfg
        /\ \/ Moved(c, "loop") /\ cache' = cache
           \/ Moved(c, "copy") /\ cache' = cache \cup {conn[c].dst} /\ conn[c].app # "http"
           \/ Moved(c, "copy") /\ cache' = cache
    BY <1>6 DEF SniffHTTPRequest
  <2>2. CASE cache' = cache
    <3>1. cache' \subseteq cache \cup {}
      BY <2>2
    <3> QED
      BY <1>3, <2>1, <3>1 DEF Stages
  <2>3. CASE Moved(c, "copy") /\ cache' = cache \cup {conn[c].dst} /\ conn[c].app # "http"
    BY <1>3, <2>1, <2>3 DEF Stages
  <2> QED
    BY <2>1, <2>2, <2>3
<1>7. CASE RewriteRequest(c) \/ ForwardHTTP(c)
  <2>1. PICK white \in BOOLEAN :
            /\ \/ conn' = [conn EXCEPT ![c].white = @ \/ white]
               \/ conn' = [conn EXCEPT ![c].white = @ \/ white, ![c].st = "copy"]
            /\ cache' = IF NeedCache(white) THEN cache \cup {conn[c].dst} ELSE cache
    BY <1>7 DEF RewriteRequest, ForwardHTTP
  <2>2. PICK rec \in Conns : /\ \/ rec = [conn[c] EXCEPT !.white = @ \/ white]
                                \/ rec = [conn[c] EXCEPT !.white = @ \/ white, !.st = "copy"]
                             /\ conn' = [conn EXCEPT ![c] = rec]
    BY <1>1, <2>1 DEF CInv, Conns, Stages
  <2>3. rec.dst = conn[c].dst /\ rec.app = conn[c].app /\ rec.known = conn[c].known /\ rec.white = (conn[c].white \/ white)
    BY <1>1, <2>2 DEF Conns
  <2>4. cfg' = cfg
    BY <1>7 DEF RewriteRequest, ForwardHTTP
  <2>5. CASE NeedCache(white)
    BY <2>1, <2>2, <2>3, <2>4, <2>5, Moves DEF NeedCache
  <2>6. CASE ~NeedCache(white)
    <3>1. cache' \subseteq cache \cup {}
      BY <2>1, <2>6
    <3> QED
      BY <2>2, <2>3, <2>4, <3>1, Moves
  <2> QED
    BY <2>5, <2>6
<1>8. CASE Upgrade(c) \/ SniffHTTPFast(c) \/ End(c)
  <2>1. cfg' = cfg /\ cache' \subseteq cache \cup {} /\ (Moved(c, "copy") \/ Moved(c, "closed"))
    BY <1>8 DEF Upgrade, SniffHTTPFast, End
  <2> QED
    BY <1>3, <2>1 DEF Stages
<1> QED
  BY <1>4, <1>5, <1>6, <1>7, <1>8 DEF Work

LEMMA CInvStep == ASSUME CInv, [RecordsNext]_recordVars PROVE CInv'
<1>1. ASSUME NEW s \in Srcs, NEW d \in Dests, NEW app \in {"tls", "http", "other"}, ServeConnLink(s, d, app)
      PROVE  CInv'
  <2> DEFINE known == cfg.mode = "GLOBAL" /\ d \in cache
             rec == [src |-> s, dst |-> d, app |-> app, known |-> known, white |-> FALSE, mitm |-> FALSE,
                   st |-> IF known \/ cfg.mode = "DIRECT" THEN "copy" ELSE "tls?"]
  <2>1. conn' = Append(conn, rec) /\ cfg' = cfg /\ cache' = cache
    BY <1>1 DEF ServeConnLink, NoMore
  <2>2. known \in BOOLEAN
    BY Zenon
  <2>3. rec \in Conns
    BY <2>2 DEF Conns, Stages
  <2>4. rec.known => cfg.mode = "GLOBAL" /\ rec.dst \in cache
    BY <2>2
  <2> QED
    BY <2>1, <2>3, <2>4, Joins
<1>2. ASSUME NEW s \in Srcs, NEW d \in Dests, handleHTTP(s, d) PROVE CInv'
  <2> DEFINE rec == [src |-> s, dst |-> d, app |-> "http", known |-> FALSE, white |-> FALSE, mitm |-> FALSE,
                   st |-> "plain"]
  <2>1. conn' = Append(conn, rec) /\ cfg' = cfg /\ cache' = cache
    BY <1>2 DEF handleHTTP, NoMore
  <2>2. rec \in Conns
    BY DEF Conns, Stages
  <2> QED
    BY <2>1, <2>2, Joins
<1>3. ASSUME NEW d \in Dests, Expire(d) PROVE CInv'
  BY <1>3, Forgets DEF Expire
<1>4. CASE Add \/ Remove \/ Cleanup
  BY <1>4, Forgets DEF Add, Remove, Cleanup
<1>5. CASE UNCHANGED recordVars
  BY <1>5, Forgets DEF recordVars
<1> QED
  BY <1>1, <1>2, <1>3, <1>4, <1>5, WorkKeeps DEF RecordsNext

(* A connection goes uninspected only under GLOBAL, and to a destination to
   which an earlier one has given a reason (server.go:75, 140, 190 and 253).  *)
THEOREM InspectedUnlessKnown == RecordsSpec => []UninspectedHasCause
<1>1. CInv => UninspectedHasCause
  BY DEF CInv
<1> QED
  BY <1>1, CInvInit, CInvStep, PTL DEF RecordsSpec

-----------------------------------------------------------------------------
(* What is listed, or waits to be, is open or its removal has gone wrong or is
   under way.                                                                *)
Removing(k) == k \in stray \/ \E i \in DOMAIN removes : removes[i] = k
Over    == \A k \in (Listed \cup QueuedKeys) \ OpenKeys : Removing(k)
Missing == \A k \in OpenKeys \ Listed : k \in gone \cup QueuedKeys
Records == [key : Srcs \X Dests, first : BOOLEAN, old : BOOLEAN]
Queues  == adds \in Seq(Records)
           /\ removes \in Seq(Srcs \X Dests)
Entries == list \subseteq [key : Srcs \X Dests, old : BOOLEAN]
LInv == conn \in Seq(Conns) /\ Queues /\ Entries /\ Over /\ Missing

LEMMA LInvInit == RecordsInit => LInv
  BY DEF RecordsInit, LInv, Queues, Entries, Over, Missing, Conns, Listed, QueuedKeys, OpenKeys

(* A record that is sent or forgotten. *)
LEMMA Adds ==
    ASSUME LInv, NEW k \in Srcs \X Dests, NEW first \in BOOLEAN, AddRecord(k, first)
    PROVE  /\ adds' \in Seq(Records)
           /\ QueuedKeys' \subseteq QueuedKeys \cup {k} /\ QueuedKeys \subseteq QueuedKeys'
           /\ gone \subseteq gone' /\ k \in gone' \cup QueuedKeys'
<1>1. CASE Len(adds) < Capacity
  <2> DEFINE rec == [key |-> k, first |-> first, old |-> FALSE]
  <2>1. adds' = Append(adds, rec) /\ gone' = gone
    BY <1>1 DEF AddRecord
  <2>2. rec \in Records /\ rec.key = k
    BY DEF Records
  <2> HIDE DEF rec
  <2>3. adds' \in Seq(Records)
    BY <2>1, <2>2 DEF LInv, Queues
  <2>4. /\ DOMAIN adds' = 1..Len(adds)+1 /\ DOMAIN adds = 1..Len(adds) /\ Len(adds) \in Nat
        /\ adds'[Len(adds)+1] = rec /\ \A i \in DOMAIN adds : adds'[i] = adds[i]
    BY <2>1, <2>2 DEF LInv, Queues
  <2> QED
    BY <2>1, <2>2, <2>3, <2>4 DEF QueuedKeys
<1>2. CASE ~(Len(adds) < Capacity)
  BY <1>2 DEF AddRecord, LInv, Queues, QueuedKeys
<1> QED
  BY <1>1, <1>2

(* A connection that is made, or stays open, and may have sent a record. *)
LEMMA Grows ==
    ASSUME LInv, conn' \in Seq(Conns), Queues', UNCHANGED <<removes, list, stray>>,
           NEW k, k \in OpenKeys', OpenKeys \subseteq OpenKeys', OpenKeys' \subseteq OpenKeys \cup {k},
           QueuedKeys \subseteq QueuedKeys', QueuedKeys' \subseteq QueuedKeys \cup {k}, gone \subseteq gone',
           k \in OpenKeys \/ k \in gone' \cup QueuedKeys'
    PROVE  LInv'
<1>1. Listed' = Listed
  BY DEF Listed
<1>2. Over'
  BY <1>1 DEF LInv, Over, Removing
<1>3. Missing'
  BY <1>1 DEF LInv, Missing
<1> QED
  BY <1>2, <1>3 DEF LInv, Entries

(* The keys of the connections that are open after c has moved. *)
LEMMA KeysMoved ==
    ASSUME conn \in Seq(Conns), NEW c \in DOMAIN conn, NEW rec \in Conns, conn' = [conn EXCEPT ![c] = rec],
           rec.src = conn[c].src, rec.dst = conn[c].dst, conn[c].st # "closed"
    PROVE  /\ conn' \in Seq(Conns) /\ Key(c) \in OpenKeys /\ Key(c) \in Srcs \X Dests
           /\ OpenKeys' \subseteq OpenKeys /\ OpenKeys \subseteq OpenKeys' \cup {Key(c)}
           /\ rec.st # "closed" => OpenKeys' = OpenKeys
<1>1. conn' \in Seq(Conns) /\ DOMAIN conn' = DOMAIN conn /\ conn'[c] = rec /\ conn[c] \in Conns
  OBVIOUS
<1>2. \A e \in DOMAIN conn : e # c => conn'[e] = conn[e]
  OBVIOUS
<1>3. \A e \in DOMAIN conn : Key(e)' = Key(e)
  BY <1>1, <1>2 DEF Key
<1>4. \A e \in DOMAIN conn : e # c => (IsOpen(e)' <=> IsOpen(e))
  BY <1>2 DEF IsOpen
<1>5. IsOpen(c) /\ (IsOpen(c)' <=> rec.st # "closed")
  BY <1>1 DEF IsOpen
<1>6. Key(c) \in Srcs \X Dests
  BY <1>1 DEF Key, Conns
<1> QED
  BY <1>1, <1>3, <1>4, <1>5, <1>6 DEF OpenKeys

LEMMA KeysJoined ==
    ASSUME conn \in Seq(Conns), NEW rec \in Conns, conn' = Append(conn, rec), rec.st # "closed"
    PROVE  conn' \in Seq(Conns) /\ OpenKeys' = OpenKeys \cup {<<rec.src, rec.dst>>}
<1>1. /\ conn' \in Seq(Conns) /\ Len(conn) \in Nat
      /\ DOMAIN conn = 1..Len(conn) /\ DOMAIN conn' = 1..Len(conn)+1
  OBVIOUS
<1>2. PICK n \in Nat : n = Len(conn) + 1
  BY <1>1
<1>3. (\A e \in DOMAIN conn : conn'[e] = conn[e]) /\ conn'[n] = rec
  BY <1>2
<1>4. \A e \in DOMAIN conn : Key(e)' = Key(e) /\ (IsOpen(e)' <=> IsOpen(e))
  BY <1>3 DEF Key, IsOpen
<1>5. Key(n)' = <<rec.src, rec.dst>> /\ IsOpen(n)'
  BY <1>3 DEF Key, IsOpen
<1>6. DOMAIN conn' = DOMAIN conn \cup {n}
  BY <1>1, <1>2
<1> QED
  BY <1>1, <1>4, <1>5, <1>6 DEF OpenKeys

(* A step of a connection that stays open. *)
LEMMA Stays ==
    ASSUME LInv, NEW c \in DOMAIN conn, NEW rec \in Conns, conn' = [conn EXCEPT ![c] = rec],
           rec.src = conn[c].src, rec.dst = conn[c].dst, conn[c].st # "closed", rec.st # "closed",
           UNCHANGED <<removes, list, stray>>, AddRecord(Key(c), FALSE) \/ Silent
    PROVE  LInv'
<1>1. /\ conn' \in Seq(Conns) /\ Key(c) \in OpenKeys /\ Key(c) \in Srcs \X Dests
      /\ OpenKeys' = OpenKeys
  BY KeysMoved DEF LInv
<1>2. CASE AddRecord(Key(c), FALSE)
  <2>1. Queues' /\ QueuedKeys' \subseteq QueuedKeys \cup {Key(c)} /\ QueuedKeys \subseteq QueuedKeys' /\ gone \subseteq gone'
    BY <1>1, <1>2, Adds DEF LInv, Queues
  <2> QED
    BY <1>1, <2>1, Grows
<1>3. CASE Silent
  <2>1. Queues' /\ QueuedKeys' = QueuedKeys /\ gone' = gone
    BY <1>3 DEF Silent, LInv, Queues, QueuedKeys
  <2> QED
    BY <1>1, <2>1, Grows
<1> QED
  BY <1>2, <1>3

(* A removal that is sent or forgotten. *)
LEMMA Removes ==
    ASSUME LInv, NEW k \in Srcs \X Dests, RemoveRecord(k)
    PROVE  removes' \in Seq(Srcs \X Dests) /\ Removing(k)' /\ \A j : Removing(j) => Removing(j)'
<1>1. CASE Len(removes) < Capacity
  <2>1. removes' = Append(removes, k) /\ stray' = stray
    BY <1>1 DEF RemoveRecord
  <2>2. PICK n \in Nat : n = Len(removes) + 1
    BY DEF LInv, Queues
  <2>3. /\ removes' \in Seq(Srcs \X Dests) /\ n \in DOMAIN removes' /\ removes'[n] = k
        /\ DOMAIN removes \subseteq DOMAIN removes' /\ \A i \in DOMAIN removes : removes'[i] = removes[i]
    BY <2>1, <2>2 DEF LInv, Queues
  <2> QED
    BY <2>1, <2>3 DEF Removing
<1>2. CASE ~(Len(removes) < Capacity)
  BY <1>2 DEF RemoveRecord, Removing, LInv, Queues
<1> QED
  BY <1>1, <1>2

LEMMA WorkLists == ASSUME LInv, NEW c \in DOMAIN conn, Work(c) PROVE LInv'
<1> USE DEF NoMore
<1>1. conn[c] \in Conns
  BY DEF LInv
<1>8. {"hello", "http?", "loop", "copy"} \subseteq Stages \ {"closed"}
  BY DEF Stages
<1>2. CASE End(c)
  <2>1. PICK rec \in Conns : rec = [conn[c] EXCEPT !.st = "closed"]
    BY <1>1 DEF Conns, Stages
  <2>2. conn' = [conn EXCEPT ![c] = rec]
    BY <1>2, <2>1 DEF End, Moved
  <2>3. rec.src = conn[c].src /\ rec.dst = conn[c].dst /\ conn[c].st # "closed"
    BY <1>1, <1>2, <2>1 DEF Conns, End
  <2>4. /\ conn' \in Seq(Conns) /\ Key(c) \in Srcs \X Dests
        /\ OpenKeys' \subseteq OpenKeys /\ OpenKeys \subseteq OpenKeys' \cup {Key(c)}
    BY <2>2, <2>3, KeysMoved DEF LInv
  <2>5. RemoveRecord(Key(c)) /\ adds' = adds /\ gone' = gone /\ list' = list
    BY <1>2 DEF End, Silent
  <2>6. PICK k \in Srcs \X Dests : k = Key(c)
    BY <2>4
  <2>7. removes' \in Seq(Srcs \X Dests) /\ Removing(k)' /\ \A j : Removing(j) => Removing(j)'
    BY <2>5, <2>6, Removes
  <2>8. Queues' /\ QueuedKeys' = QueuedKeys /\ Listed' = Listed
    BY <2>5, <2>7 DEF LInv, Queues, QueuedKeys, Listed
  <2>9. Over'
    BY <2>4, <2>6, <2>7, <2>8 DEF LInv, Over
  <2>10. Missing'
    BY <2>4, <2>5, <2>8 DEF LInv, Missing
  <2> QED
    BY <2>4, <2>5, <2>8, <2>9, <2>10 DEF LInv, Entries
<1>3. ASSUME NEW st \in Stages \ {"closed"}, Moved(c, st), conn[c].st # "closed",
             UNCHANGED <<removes, list, stray>>, AddRecord(Key(c), FALSE) \/ Silent
      PROVE  LInv'
  <2>1. PICK rec \in Conns : rec = [conn[c] EXCEPT !.st = st]
    BY <1>1 DEF Conns
  <2>2. conn' = [conn EXCEPT ![c] = rec]
    BY <1>3, <2>1 DEF Moved
  <2>3. rec.src = conn[c].src /\ rec.dst = conn[c].dst /\ rec.st # "closed"
    BY <1>1, <2>1 DEF Conns
  <2> QED
    BY <1>3, <2>2, <2>3, Stays
<1>4. CASE SniffTLS(c)
  <2>1. /\ conn[c].st # "closed" /\ (Moved(c, "hello") \/ Moved(c, "http?"))
        /\ UNCHANGED <<removes, list, stray>> /\ (AddRecord(Key(c), FALSE) \/ Silent)
    BY <1>4 DEF SniffTLS
  <2>2. CASE Moved(c, "hello")
    BY <1>3, <1>8, <2>1, <2>2
  <2>3. CASE Moved(c, "http?")
    BY <1>3, <1>8, <2>1, <2>3
  <2> QED
    BY <2>1, <2>2, <2>3
<1>5. CASE HandleTLS(c)
  <2>1. conn[c].st # "closed" /\ UNCHANGED <<removes, list, stray>> /\ Silent
    BY <1>5 DEF HandleTLS
  <2>2. CASE Moved(c, "copy")
    BY <1>3, <1>8, <2>1, <2>2
  <2>3. CASE conn' = [conn EXCEPT ![c].st = "http?", ![c].mitm = TRUE]
    <3>1. PICK rec \in Conns : rec = [conn[c] EXCEPT !.st = "http?", !.mitm = TRUE]
      BY <1>1 DEF Conns, Stages
    <3>2. conn' = [conn EXCEPT ![c] = rec]
      BY <2>3, <3>1 DEF LInv
    <3>3. rec.src = conn[c].src /\ rec.dst = conn[c].dst /\ rec.st # "closed"
      BY <1>1, <3>1 DEF Conns
    <3> QED
      BY <2>1, <3>2, <3>3, Stays
  <2> QED
    BY <1>5, <2>2, <2>3 DEF HandleTLS
<1>6. CASE SniffHTTPRequest(c) \/ Upgrade(c) \/ SniffHTTPFast(c)
  <2>1. /\ conn[c].st # "closed" /\ (Moved(c, "loop") \/ Moved(c, "copy"))
        /\ UNCHANGED <<removes, list, stray>> /\ (AddRecord(Key(c), FALSE) \/ Silent)
    BY <1>6 DEF SniffHTTPRequest, Upgrade, SniffHTTPFast
  <2>2. CASE Moved(c, "loop")
    BY <1>3, <1>8, <2>1, <2>2
  <2>3. CASE Moved(c, "copy")
    BY <1>3, <1>8, <2>1, <2>3
  <2> QED
    BY <2>1, <2>2, <2>3
<1>7. CASE RewriteRequest(c) \/ ForwardHTTP(c)
  <2>1. PICK white \in BOOLEAN : \/ conn' = [conn EXCEPT ![c].white = @ \/ white]
                                \/ conn' = [conn EXCEPT ![c].white = @ \/ white, ![c].st = "copy"]
    BY <1>7 DEF RewriteRequest, ForwardHTTP
  <2>2. conn[c].st # "closed" /\ UNCHANGED <<removes, list, stray>> /\ Silent
    BY <1>7 DEF RewriteRequest, ForwardHTTP
  <2>3. PICK rec \in Conns : /\ \/ rec = [conn[c] EXCEPT !.white = @ \/ white]
                                \/ rec = [conn[c] EXCEPT !.white = @ \/ white, !.st = "copy"]
                             /\ conn' = [conn EXCEPT ![c] = rec]
    BY <1>1, <2>1 DEF LInv, Conns, Stages
  <2>4. rec.src = conn[c].src /\ rec.dst = conn[c].dst /\ rec.st # "closed"
    BY <1>1, <2>2, <2>3 DEF Conns
  <2> QED
    BY <2>2, <2>3, <2>4, Stays
<1> QED
  BY <1>2, <1>4, <1>5, <1>6, <1>7 DEF Work

(* The goroutine of the list. *)
LEMMA AddLists == ASSUME LInv, Add PROVE LInv'
<1>1. PICK rec : rec = Head(adds)
  OBVIOUS
<1>2. adds # <<>> /\ adds' = Tail(adds) /\ gone' = gone \ {rec.key}
  BY <1>1 DEF Add
<1>3. /\ Queues' /\ rec.key \in QueuedKeys /\ QueuedKeys' \subseteq QueuedKeys
      /\ QueuedKeys \subseteq QueuedKeys' \cup {rec.key}
  <2>1. /\ adds' \in Seq(Records)
        /\ Len(adds) \in Nat \ {0} /\ Len(adds') = Len(adds) - 1 /\ rec = adds[1]
        /\ \A i \in 1..Len(adds') : adds'[i] = adds[i+1]
    BY <1>1, <1>2 DEF LInv, Queues
  <2>2. DOMAIN adds = 1..Len(adds) /\ DOMAIN adds' = 1..Len(adds')
    BY <2>1 DEF LInv, Queues
  <2>3. ASSUME NEW i \in DOMAIN adds, i # 1 PROVE i-1 \in DOMAIN adds' /\ adds'[i-1] = adds[i]
    BY <2>1, <2>2, <2>3
  <2>4. removes' = removes
    BY DEF Add
  <2>8. ASSUME NEW i \in DOMAIN adds' PROVE i+1 \in DOMAIN adds /\ adds'[i] = adds[i+1]
    BY <2>1, <2>2, <2>8
  <2>5. QueuedKeys' \subseteq QueuedKeys
    BY <2>8 DEF QueuedKeys
  <2>6. QueuedKeys \subseteq QueuedKeys' \cup {rec.key}
    BY <2>1, <2>3 DEF QueuedKeys
  <2>7. rec.key \in QueuedKeys
    BY <2>1, <2>2 DEF QueuedKeys
  <2> QED
    BY <2>1, <2>4, <2>5, <2>6, <2>7 DEF LInv, Queues
<1>4. Listed' = Listed \cup {rec.key}
  <2>1. list' = IF rec.key \in Listed THEN list ELSE list \cup {[key |-> rec.key, old |-> rec.old]}
    BY <1>1 DEF Add
  <2>2. CASE rec.key \in Listed
    BY <2>1, <2>2 DEF Listed
  <2>3. CASE rec.key \notin Listed
    <3>1. PICK n : n = [key |-> rec.key, old |-> rec.old]
      OBVIOUS
    <3>2. list' = list \cup {n} /\ n.key = rec.key
      BY <2>1, <2>3, <3>1
    <3> QED
      BY <3>2 DEF Listed
  <2> QED
    BY <2>2, <2>3
<1>5. UNCHANGED <<conn, removes, stray>> /\ OpenKeys' = OpenKeys
  BY DEF Add, OpenKeys, IsOpen, Key
<1>6. Over'
  BY <1>3, <1>4, <1>5 DEF LInv, Over, Removing
<1>7. Missing'
  BY <1>2, <1>3, <1>4, <1>5 DEF LInv, Missing
<1>8. Entries'
  <2>1. rec \in Records
    BY <1>1, <1>2 DEF LInv, Queues
  <2>2. [key |-> rec.key, old |-> rec.old] \in [key : Srcs \X Dests, old : BOOLEAN]
    BY <2>1 DEF Records
  <2>3. list' \subseteq list \cup {[key |-> rec.key, old |-> rec.old]}
    BY <1>1 DEF Add
  <2> QED
    BY <2>2, <2>3 DEF LInv, Entries
<1> QED
  BY <1>3, <1>5, <1>6, <1>7, <1>8 DEF LInv

LEMMA RemoveLists == ASSUME LInv, Remove PROVE LInv'
<1>1. PICK k : k = Head(removes)
  OBVIOUS
<1>2. /\ removes # <<>> /\ removes' = Tail(removes) /\ list' = {x \in list : x.key # k}
      /\ stray' = (IF k \in QueuedKeys THEN stray \cup {k} ELSE stray \ {k})
      /\ gone' = (IF k \in OpenKeys THEN gone \cup {k} ELSE gone)
      /\ UNCHANGED <<conn, adds>>
  BY <1>1 DEF Remove
<1>3. OpenKeys' = OpenKeys /\ QueuedKeys' = QueuedKeys /\ Listed' = Listed \ {k}
  BY <1>2 DEF OpenKeys, IsOpen, Key, QueuedKeys, Listed
<1>4. Queues' /\ \A i \in DOMAIN removes : removes[i] = k \/ \E j \in DOMAIN removes' : removes'[j] = removes[i]
  <2>1. /\ removes' \in Seq(Srcs \X Dests) /\ Len(removes) \in Nat \ {0}
        /\ Len(removes') = Len(removes) - 1 /\ k = removes[1]
        /\ \A i \in 1..Len(removes') : removes'[i] = removes[i+1]
    BY <1>1, <1>2 DEF LInv, Queues
  <2>2. DOMAIN removes = 1..Len(removes) /\ DOMAIN removes' = 1..Len(removes')
    BY <2>1 DEF LInv, Queues
  <2>3. ASSUME NEW i \in DOMAIN removes, i # 1 PROVE i-1 \in DOMAIN removes' /\ removes'[i-1] = removes[i]
    BY <2>1, <2>2, <2>3
  <2> QED
    BY <1>2, <2>1, <2>3 DEF LInv, Queues
<1>5. Over'
  BY <1>2, <1>3, <1>4 DEF LInv, Over, Removing
<1>6. Missing'
  BY <1>2, <1>3 DEF LInv, Missing
<1> QED
  BY <1>2, <1>4, <1>5, <1>6 DEF LInv, Entries

LEMMA CleanupLists == ASSUME LInv, Cleanup PROVE LInv'
<1>1. UNCHANGED <<conn, removes, stray>> /\ OpenKeys' = OpenKeys
  BY DEF Cleanup, OpenKeys, IsOpen, Key
<1>2. Queues' /\ QueuedKeys' = QueuedKeys
  <2>1. adds' = [i \in DOMAIN adds |-> [adds[i] EXCEPT !.old = adds[i].first]]
    BY DEF Cleanup
  <2>2. /\ DOMAIN adds = 1..Len(adds) /\ Len(adds) \in Nat
        /\ \A i \in DOMAIN adds : adds[i] \in Records
    BY DEF LInv, Queues
  <2>3. \A i \in DOMAIN adds : /\ adds'[i] \in Records
                               /\ adds'[i].key = adds[i].key
    BY <2>1, <2>2 DEF Records
  <2>4. DOMAIN adds' = DOMAIN adds
    BY <2>1
  <2>5. adds' \in Seq(Records)
    BY <2>1, <2>2, <2>3
  <2>6. QueuedKeys' = QueuedKeys
    BY <2>3, <2>4 DEF QueuedKeys
  <2> QED
    BY <1>1, <2>5, <2>6 DEF LInv, Queues
<1>3. Listed' \subseteq Listed /\ Listed \subseteq Listed' \cup gone' /\ gone \subseteq gone'
  <2>1. /\ list' = {[x EXCEPT !.old = TRUE] : x \in list \ Expired}
        /\ gone' = gone \cup {x.key : x \in Expired}
    BY DEF Cleanup
  <2>2. \A x \in list : [x EXCEPT !.old = TRUE].key = x.key
    BY DEF LInv, Entries
  <2> QED
    BY <2>1, <2>2 DEF Listed, Expired
<1>6. Entries'
  <2>1. \A x \in list : [x EXCEPT !.old = TRUE] \in [key : Srcs \X Dests, old : BOOLEAN]
    BY DEF LInv, Entries
  <2> QED
    BY <2>1 DEF Entries, Cleanup
<1>4. Over'
  BY <1>1, <1>2, <1>3 DEF LInv, Over, Removing
<1>5. Missing'
  BY <1>1, <1>2, <1>3 DEF LInv, Missing
<1> QED
  BY <1>1, <1>2, <1>4, <1>5, <1>6 DEF LInv

LEMMA LInvStep == ASSUME LInv, [RecordsNext]_recordVars PROVE LInv'
<1>1. ASSUME NEW rec \in Conns, rec.st # "closed", conn' = Append(conn, rec), AddRecord(<<rec.src, rec.dst>>, TRUE),
             UNCHANGED <<removes, list, stray>>
      PROVE  LInv'
  <2>1. rec.src \in Srcs /\ rec.dst \in Dests
    BY DEF Conns
  <2>2. PICK k \in Srcs \X Dests : k = <<rec.src, rec.dst>>
    BY <2>1
  <2>3. conn' \in Seq(Conns) /\ OpenKeys' = OpenKeys \cup {k}
    BY <1>1, <2>2, KeysJoined DEF LInv
  <2>4. /\ Queues' /\ QueuedKeys' \subseteq QueuedKeys \cup {k} /\ QueuedKeys \subseteq QueuedKeys'
        /\ gone \subseteq gone' /\ k \in gone' \cup QueuedKeys'
    BY <1>1, <2>2, Adds DEF LInv, Queues
  <2> QED
    BY <1>1, <2>3, <2>4, Grows
<1>2. ASSUME NEW s \in Srcs, NEW d \in Dests, NEW app \in {"tls", "http", "other"}, ServeConnLink(s, d, app)
      PROVE  LInv'
  <2> DEFINE known == cfg.mode = "GLOBAL" /\ d \in cache
             rec == [src |-> s, dst |-> d, app |-> app, known |-> known, white |-> FALSE, mitm |-> FALSE,
                   st |-> IF known \/ cfg.mode = "DIRECT" THEN "copy" ELSE "tls?"]
  <2>1. known \in BOOLEAN
    BY Zenon
  <2>2. rec \in Conns /\ rec.st # "closed" /\ rec.src = s /\ rec.dst = d
    BY <2>1 DEF Conns, Stages
  <2>3. /\ conn' = Append(conn, rec) /\ AddRecord(<<s, d>>, TRUE)
        /\ UNCHANGED <<removes, list, stray>>
    BY <1>2 DEF ServeConnLink, NoMore
  <2> HIDE DEF rec
  <2> QED
    BY <1>1, <2>2, <2>3
<1>3. ASSUME NEW s \in Srcs, NEW d \in Dests, handleHTTP(s, d) PROVE LInv'
  <2> DEFINE rec == [src |-> s, dst |-> d, app |-> "http", known |-> FALSE, white |-> FALSE, mitm |-> FALSE,
                   st |-> "plain"]
  <2>1. rec \in Conns /\ rec.st # "closed" /\ rec.src = s /\ rec.dst = d
    BY DEF Conns, Stages
  <2>2. /\ conn' = Append(conn, rec) /\ AddRecord(<<s, d>>, TRUE)
        /\ UNCHANGED <<removes, list, stray>>
    BY <1>3 DEF handleHTTP, NoMore
  <2> HIDE DEF rec
  <2> QED
    BY <1>1, <2>1, <2>2
<1>4. CASE UNCHANGED <<conn, adds, removes, list, stray, gone>>
  BY <1>4 DEF LInv, Queues, Entries, Over, Missing, Removing, Listed, QueuedKeys, OpenKeys, IsOpen, Key
<1>5. ASSUME NEW d \in Dests, Expire(d) PROVE LInv'
  BY <1>4, <1>5 DEF Expire
<1>6. CASE UNCHANGED recordVars
  BY <1>4, <1>6 DEF recordVars
<1> QED
  BY <1>2, <1>3, <1>5, <1>6, WorkLists, AddLists, RemoveLists, CleanupLists DEF RecordsNext

(* Whoever is listed and gone, or open and missing, has lost a record or been
   overtaken by one, however many connections there are and however short the
   channels (statistics.go:32-60, conn.go:48-110).                            *)
THEOREM ListHasReasons == RecordsSpec => []ListExplained
<1>1. LInv => ListExplained
  BY DEF LInv, Over, Missing, Removing, ListExplained
<1> QED
  BY <1>1, LInvInit, LInvStep, PTL DEF RecordsSpec
=============================================================================
