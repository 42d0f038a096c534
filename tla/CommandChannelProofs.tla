------------------------ MODULE CommandChannelProofs ------------------------
(***************************************************************************)
(* The command channel for any number of callers, any list size and any    *)
(* range of sequence numbers: its types; that it implements CommandService *)
(* when no reply outlives the range of the sequence numbers; and that a    *)
(* caller who is alone gets its answer.                                    *)
(***************************************************************************)
EXTENDS CommandChannel, SequenceTheorems, FiniteSetTheorems, TLAPS

\* A response that a caller would take for the answer to its call comes from
\* a command carried out since the call began.
RepliesAreTrue ==
    \A c \in Callers : pc[c] # "idle" =>
        /\ \A i \in 1..Len(toDriver) :
                Matches(c, toDriver[i]) => executed[c]
        /\ \A i \in 1..Len(m_responseList) :
                Matches(c, m_responseList[i]) => executed[c]

\* A caller that is in a call has a code of its own.
CallsHaveCodes ==
    \A c \in Callers : pc[c] # "idle" => call[c].code \in Codes

IInv == TypeOK /\ CallsHaveCodes /\ RepliesAreTrue /\ TrueMeansExecuted

-----------------------------------------------------------------------------
(* Sequences.                                                              *)

LEMMA Shorter ==
    ASSUME NEW S, NEW q \in Seq(S), q # <<>>
    PROVE  /\ Head(q) \in S /\ Head(q) = q[1] /\ 1 \in 1..Len(q)
           /\ Tail(q) \in Seq(S) /\ Len(Tail(q)) = Len(q) - 1
           /\ \A i \in 1..Len(Tail(q)) :
                 i + 1 \in 1..Len(q) /\ Tail(q)[i] = q[i + 1]
  OBVIOUS

LEMMA Longer ==
    ASSUME NEW S, NEW q \in Seq(S), NEW r \in S
    PROVE  /\ Append(q, r) \in Seq(S) /\ Len(Append(q, r)) = Len(q) + 1
           /\ \A i \in 1..Len(Append(q, r)) :
                 \/ i \in 1..Len(q) /\ Append(q, r)[i] = q[i]
                 \/ Append(q, r)[i] = r
  OBVIOUS

-----------------------------------------------------------------------------
(* Types.                                                                  *)

CallRecords == [code : Codes \cup {"none"}, saveseq : Seqs, seq : Seqs]

LEMMA NumberLoaded ==
    ASSUME NEW f \in [Callers -> CallRecords], NEW c \in Callers, NEW n \in Seqs
    PROVE  [f EXCEPT ![c].seq = n] \in [Callers -> CallRecords]
  <1>1. f[c] \in CallRecords
    OBVIOUS
  <1>2. [f[c] EXCEPT !.seq = n] \in CallRecords
    BY <1>1 DEF CallRecords
  <1>. QED
    BY <1>2

LEMMA TypeStep == TypeOK /\ CallsHaveCodes /\ [Next]_vars
                     => TypeOK' /\ CallsHaveCodes'
  <1>. SUFFICES ASSUME TypeOK, CallsHaveCodes, [Next]_vars
                PROVE  TypeOK' /\ CallsHaveCodes'
    OBVIOUS
  <1>. USE CommandChannelAssumption
         DEF TypeOK, CallsHaveCodes, lineVars, Excuse, Excused
  <1>1. CASE UNCHANGED vars
    BY <1>1 DEF vars
  <1>2. ASSUME NEW c \in Callers, SaveSeq(c) PROVE TypeOK' /\ CallsHaveCodes'
    BY <1>2 DEF SaveSeq, CallerAt, Seqs
  <1>3. ASSUME NEW c \in Callers, LoadSeq(c) PROVE TypeOK' /\ CallsHaveCodes'
    <2>1. call' \in [Callers -> [code : Codes \cup {"none"}, saveseq : Seqs, seq : Seqs]]
      <3>1. m_sequencyno \in Seqs /\ call' = [call EXCEPT ![c].seq = m_sequencyno]
        BY <1>3 DEF LoadSeq, LoadedSeq
      <3>2. call \in [Callers -> CallRecords]
        BY DEF CallRecords
      <3>3. call' \in [Callers -> CallRecords]
        BY <3>1, <3>2, NumberLoaded
      <3>. QED
        BY <3>3 DEF CallRecords
    <2>2. call'[c].code = call[c].code /\ \A d \in Callers \ {c} : call'[d] = call[d]
      BY <1>3 DEF LoadSeq
    <2>3. TypeOK'
      BY <1>3, <2>1 DEF LoadSeq, CallerAt
    <2>4. CallsHaveCodes'
      BY <1>3, <2>2 DEF LoadSeq, CallerAt
    <2>. QED
      BY <2>3, <2>4
  <1>4. ASSUME NEW c \in Callers, StoreSeq(c) PROVE TypeOK' /\ CallsHaveCodes'
    <2>1. call[c].seq \in 0..SeqMod - 1
      BY DEF Seqs
    <2>2. m_sequencyno' \in Seqs
      BY <1>4, <2>1 DEF StoreSeq, NextSeq, Seqs
    <2>3. TypeOK'
      BY <1>4, <2>2 DEF StoreSeq, CallerAt
    <2>4. CallsHaveCodes'
      BY <1>4 DEF StoreSeq, CallerAt
    <2>. QED
      BY <2>3, <2>4
  <1>5. ASSUME NEW c \in Callers, ClearList(c) PROVE TypeOK' /\ CallsHaveCodes'
    <2>1. m_responseList' \in Seq(Responses) /\ Len(m_responseList') = 0
      BY <1>5 DEF ClearList
    <2>. QED
      BY <1>5, <2>1 DEF ClearList, CallerAt
  <1>6. ASSUME NEW c \in Callers, Send(c) PROVE TypeOK' /\ CallsHaveCodes'
    <2>1. [code |-> call[c].code, seq |-> call[c].seq] \in CommandFrames
      BY <1>6 DEF Send, CallerAt, CommandFrames
    <2>2. toAdapter' \in Seq(CommandFrames)
      BY <1>6, <2>1, Longer DEF Send
    <2>. QED
      BY <1>6, <2>2 DEF Send, CallerAt
  <1>7. ASSUME NEW c \in Callers, SendFails(c) PROVE TypeOK' /\ CallsHaveCodes'
    BY <1>7 DEF SendFails, CallerAt
  <1>8. ASSUME NEW c \in Callers, TakeOldest(c) PROVE TypeOK' /\ CallsHaveCodes'
    <2>1. m_responseList' \in Seq(Responses)
          /\ Len(m_responseList') <= CAN4VSCP_MAX_RESPONSEMSG
      BY <1>8 DEF TakeOldest
    <2>2. ok' \in [Callers -> BOOLEAN]
      BY <1>8 DEF TakeOldest
    <2>. QED
      BY <1>8, <2>1, <2>2 DEF TakeOldest, CallerAt
  <1>9. ASSUME NEW c \in Callers, GiveUp(c) PROVE TypeOK' /\ CallsHaveCodes'
    <2>1. (call[c].code = Capabilities) \in BOOLEAN
      OBVIOUS
    <2>2. ok' \in [Callers -> BOOLEAN]
      BY <1>9, <2>1 DEF GiveUp
    <2>. QED
      BY <1>9, <2>2 DEF GiveUp, CallerAt
  <1>10. CASE AdapterExecutes
    <2>0. Head(toAdapter) \in CommandFrames
          /\ toAdapter' \in Seq(CommandFrames)
      BY <1>10, Shorter DEF AdapterExecutes
    <2>1. toDriver' \in Seq(Responses)
      <3>1. PICK kind \in {"REPLY", "CAPS_RESPONSE"} :
                toDriver' = Append(toDriver, Response(kind, Head(toAdapter).seq,
                                                      Head(toAdapter).code))
        BY <1>10 DEF AdapterExecutes, Arrives
      <3>2. Response(kind, Head(toAdapter).seq, Head(toAdapter).code)
                \in Responses
        BY <2>0 DEF Response, Responses, CommandFrames
      <3>. QED
        BY <3>1, <3>2, Longer
    <2>2. executed' \in [Callers -> BOOLEAN]
      BY <1>10 DEF AdapterExecutes
    <2>. QED
      BY <1>10, <2>0, <2>1, <2>2 DEF AdapterExecutes
  <1>11. CASE AdapterRefuses
    <2>1. Head(toAdapter) \in CommandFrames
          /\ toAdapter' \in Seq(CommandFrames)
      BY <1>11, Shorter DEF AdapterRefuses
    <2>2. Response("REFUSAL", Head(toAdapter).seq, Head(toAdapter).code)
              \in Responses
      BY <2>1 DEF Response, Responses, CommandFrames
    <2>3. toDriver' \in Seq(Responses)
      BY <1>11, <2>2, Longer DEF AdapterRefuses, Arrives
    <2>. QED
      BY <1>11, <2>1, <2>3 DEF AdapterRefuses
  <1>12. CASE AdapterAcknowledges
    BY <1>12 DEF AdapterAcknowledges, Arrives, Response, Responses
  <1>13. CASE LoseFrame
    <2>1. toAdapter' \in Seq(CommandFrames)
      BY <1>13, Shorter DEF LoseFrame
    <2>. QED
      BY <1>13, <2>1 DEF LoseFrame
  <1>15. CASE LoseReply
    <2>1. toDriver' \in Seq(Responses)
      BY <1>15, Shorter DEF LoseReply
    <2>. QED
      BY <1>15, <2>1 DEF LoseReply
  <1>14. CASE addToResponseQueue
    <2>1. Bounded \in Seq(Responses)
          /\ Len(Bounded) + 1 <= CAN4VSCP_MAX_RESPONSEMSG
      BY DEF Bounded
    <2>2. m_responseList' \in Seq(Responses)
          /\ Len(m_responseList') <= CAN4VSCP_MAX_RESPONSEMSG
      BY <1>14, <2>1 DEF addToResponseQueue
    <2>3. received' \in [Callers -> 0..CAN4VSCP_MAX_RESPONSEMSG + 1]
      BY <1>14 DEF addToResponseQueue
    <2>. QED
      BY <1>14, <2>2, <2>3 DEF addToResponseQueue
  <1>. QED
    BY <1>1, <1>2, <1>3, <1>4, <1>5, <1>6, <1>7, <1>8, <1>9, <1>10, <1>11,
       <1>12, <1>13, <1>14, <1>15 DEF Next, Caller

LEMMA TypeInit == Init => TypeOK /\ CallsHaveCodes
  BY CommandChannelAssumption DEF Init, TypeOK, CallsHaveCodes, Seqs, Excuse

\* Every reachable state has its types: sequence numbers stay within their
\* range and the response list within CAN4VSCP_MAX_RESPONSEMSG, whoever calls.
THEOREM TypeCorrect == Spec => []TypeOK
  BY TypeInit, TypeStep, PTL DEF Spec

-----------------------------------------------------------------------------
(* Replies.                                                                *)

\* Nothing that a caller could take for its answer is added, no caller starts
\* a call or changes the one it is in, and what was carried out stays so.
LEMMA Quiet ==
    ASSUME TypeOK, RepliesAreTrue,
           \A c \in Callers :
               /\ pc'[c] # "idle" => pc[c] # "idle"
               /\ call'[c].saveseq = call[c].saveseq
               /\ call'[c].code = call[c].code
               /\ executed[c] => executed'[c],
           \A i \in 1..Len(toDriver') :
               \/ \E j \in 1..Len(toDriver) : toDriver'[i] = toDriver[j]
               \/ toDriver'[i].kind # "REPLY"
               \/ \A c \in Callers :
                     (pc[c] # "idle" /\ call[c].code = toDriver'[i].code)
                         => executed'[c],
           \A i \in 1..Len(m_responseList') :
               \/ \E j \in 1..Len(m_responseList) :
                     m_responseList'[i] = m_responseList[j]
               \/ \E j \in 1..Len(toDriver) :
                     m_responseList'[i] = toDriver[j]
    PROVE  RepliesAreTrue'
  <1>. SUFFICES ASSUME NEW c \in Callers, pc'[c] # "idle"
                PROVE  /\ \A i \in 1..Len(toDriver') :
                             Matches(c, toDriver[i])' => executed'[c]
                       /\ \A i \in 1..Len(m_responseList') :
                             Matches(c, m_responseList[i])' => executed'[c]
    BY DEF RepliesAreTrue
  <1>1. \A r : (Matches(c, r) => executed[c]) =>
               ((r.kind = "REPLY" /\ r.seq = call'[c].saveseq
                   /\ r.code = call'[c].code) => executed'[c])
    BY DEF Matches
  <1>2. pc[c] # "idle"
    OBVIOUS
  <1>3. /\ \A i \in 1..Len(toDriver) : Matches(c, toDriver[i]) => executed[c]
        /\ \A i \in 1..Len(m_responseList) :
              Matches(c, m_responseList[i]) => executed[c]
    BY <1>2 DEF RepliesAreTrue
  <1>4. ASSUME NEW i \in 1..Len(toDriver'), Matches(c, toDriver[i])'
        PROVE  executed'[c]
    <2>1. toDriver'[i].kind = "REPLY" /\ toDriver'[i].seq = call'[c].saveseq
            /\ toDriver'[i].code = call'[c].code
      BY <1>4 DEF Matches
    <2>2. CASE \E j \in 1..Len(toDriver) : toDriver'[i] = toDriver[j]
      BY <1>1, <1>3, <2>1, <2>2
    <2>3. CASE \A d \in Callers :
                  (pc[d] # "idle" /\ call[d].code = toDriver'[i].code)
                      => executed'[d]
      BY <1>2, <2>1, <2>3
    <2>. QED
      BY <2>1, <2>2, <2>3
  <1>5. ASSUME NEW i \in 1..Len(m_responseList'), Matches(c, m_responseList[i])'
        PROVE  executed'[c]
    <2>1. m_responseList'[i].kind = "REPLY"
            /\ m_responseList'[i].seq = call'[c].saveseq
            /\ m_responseList'[i].code = call'[c].code
      BY <1>5 DEF Matches
    <2>. QED
      BY <1>1, <1>3, <2>1
  <1>. QED
    BY <1>4, <1>5

\* TrueMeansExecuted of callers that do not return.
LEMMA NobodyReturns ==
    ASSUME TrueMeansExecuted,
           \A c \in Callers :
               /\ pc'[c] = "idle" => pc[c] = "idle" /\ ok'[c] = ok[c]
               /\ call'[c].code = call[c].code
               /\ executed[c] => executed'[c]
    PROVE  TrueMeansExecuted'
  BY DEF TrueMeansExecuted

\* A response taken from the front of a queue leaves the others in it.
LEMMA Rest ==
    ASSUME NEW S, NEW q \in Seq(S), q # <<>>
    PROVE  \A i \in 1..Len(Tail(q)) :
               \E j \in 1..Len(q) : Tail(q)[i] = q[j]
  BY Shorter

LEMMA BoundedIsPart ==
    ASSUME TypeOK
    PROVE  /\ Bounded \in Seq(Responses)
           /\ \A i \in 1..Len(Bounded) :
                 \E j \in 1..Len(m_responseList) :
                     Bounded[i] = m_responseList[j]
  <1>1. CASE Len(m_responseList) >= CAN4VSCP_MAX_RESPONSEMSG
    <2>1. m_responseList # <<>> /\ m_responseList \in Seq(Responses)
      BY <1>1, CommandChannelAssumption DEF TypeOK
    <2>2. Bounded = Tail(m_responseList)
      BY <1>1 DEF Bounded
    <2>. QED
      BY <2>1, <2>2, Rest, Shorter
  <1>2. CASE ~(Len(m_responseList) >= CAN4VSCP_MAX_RESPONSEMSG)
    BY <1>2 DEF Bounded, TypeOK
  <1>. QED
    BY <1>1, <1>2

LEMMA ReplyStep ==
    ASSUME LateReplies, IInv, [Next]_vars
    PROVE  RepliesAreTrue' /\ TrueMeansExecuted'
  <1>. USE DEF IInv, lineVars
  <1>1. CASE UNCHANGED vars
    BY <1>1 DEF vars, RepliesAreTrue, TrueMeansExecuted, Matches
  <1>2. ASSUME NEW c \in Callers, SaveSeq(c)
        PROVE  RepliesAreTrue' /\ TrueMeansExecuted'
    <2>1. /\ call'[c].saveseq = m_sequencyno
          /\ pc'[c] = "load"
          /\ \A d \in Callers : d # c =>
                call'[d] = call[d] /\ pc'[d] = pc[d] /\ executed'[d] = executed[d]
      BY <1>2 DEF SaveSeq, CallerAt, TypeOK
    <2>2. /\ \A i \in 1..Len(toDriver) : toDriver[i].seq # m_sequencyno
          /\ \A i \in 1..Len(m_responseList) :
                m_responseList[i].seq # m_sequencyno
      BY <1>2 DEF SaveSeq, SeqIsFresh
    <2>3. UNCHANGED <<toDriver, m_responseList, ok>>
      BY <1>2 DEF SaveSeq
    <2>4. TrueMeansExecuted'
      BY <2>1, <2>3 DEF TrueMeansExecuted
    <2>5. ASSUME NEW d \in Callers, pc'[d] # "idle"
          PROVE  /\ \A i \in 1..Len(toDriver') :
                       Matches(d, toDriver[i])' => executed'[d]
                 /\ \A i \in 1..Len(m_responseList') :
                       Matches(d, m_responseList[i])' => executed'[d]
      <3>1. CASE d = c
        BY <2>1, <2>2, <2>3, <3>1 DEF Matches
      <3>2. CASE d # c
        BY <2>1, <2>3, <2>5, <3>2 DEF RepliesAreTrue, Matches
      <3>. QED
        BY <3>1, <3>2
    <2>. QED
      BY <2>4, <2>5 DEF RepliesAreTrue
  <1>3. ASSUME NEW c \in Callers, LoadSeq(c)
        PROVE  RepliesAreTrue' /\ TrueMeansExecuted'
    <2>1. \A d \in Callers :
             /\ call'[d].saveseq = call[d].saveseq /\ call'[d].code = call[d].code
             /\ pc'[d] # "idle" => pc[d] # "idle"
             /\ pc'[d] = "idle" => pc[d] = "idle"
      BY <1>3 DEF LoadSeq, CallerAt, TypeOK
    <2>2. UNCHANGED <<toDriver, m_responseList, ok, executed>>
      BY <1>3 DEF LoadSeq
    <2>. QED
      BY <2>1, <2>2, Quiet, NobodyReturns
  <1>4. ASSUME NEW c \in Callers, StoreSeq(c) \/ Send(c)
        PROVE  RepliesAreTrue' /\ TrueMeansExecuted'
    <2>1. /\ UNCHANGED <<call, toDriver, m_responseList, ok, executed>>
          /\ \A d \in Callers : pc'[d] # "idle" <=> pc[d] # "idle"
      BY <1>4 DEF StoreSeq, Send, CallerAt, TypeOK
    <2>. QED
      BY <2>1, Quiet, NobodyReturns
  <1>5. ASSUME NEW c \in Callers, ClearList(c)
        PROVE  RepliesAreTrue' /\ TrueMeansExecuted'
    <2>1. /\ UNCHANGED <<call, toDriver, ok, executed>>
          /\ m_responseList' = <<>>
          /\ \A d \in Callers : pc'[d] # "idle" <=> pc[d] # "idle"
      BY <1>5 DEF ClearList, CallerAt, TypeOK
    <2>2. \A i \in 1..Len(m_responseList') : FALSE
      BY <2>1
    <2>. QED
      BY <2>1, <2>2, Quiet, NobodyReturns
  <1>6. ASSUME NEW c \in Callers, SendFails(c) \/ GiveUp(c)
        PROVE  RepliesAreTrue' /\ TrueMeansExecuted'
    <2>1. /\ UNCHANGED <<call, toDriver, m_responseList, executed>>
          /\ \A d \in Callers : pc'[d] # "idle" => pc[d] # "idle"
          /\ \A d \in Callers \ {c} : pc'[d] = pc[d] /\ ok'[d] = ok[d]
          /\ ok'[c] => call[c].code = Capabilities
      BY <1>6 DEF SendFails, GiveUp, CallerAt, TypeOK
    <2>2. TrueMeansExecuted'
      BY <2>1 DEF TrueMeansExecuted
    <2>. QED
      BY <2>1, <2>2, Quiet
  <1>7. ASSUME NEW c \in Callers, TakeOldest(c)
        PROVE  RepliesAreTrue' /\ TrueMeansExecuted'
    <2>1. /\ UNCHANGED <<call, toDriver, executed>>
          /\ m_responseList # <<>> /\ m_responseList' = Tail(m_responseList)
          /\ pc[c] # "idle"
          /\ \A d \in Callers : pc'[d] # "idle" => pc[d] # "idle"
          /\ \A d \in Callers \ {c} : pc'[d] = pc[d] /\ ok'[d] = ok[d]
          /\ pc'[c] # "idle" \/ Matches(c, Head(m_responseList))
      BY <1>7 DEF TakeOldest, CallerAt, TypeOK
    <2>2. RepliesAreTrue'
      BY <2>1, Rest, Quiet DEF TypeOK
    <2>3. m_responseList[1] = Head(m_responseList) /\ 1 \in 1..Len(m_responseList)
      BY <2>1, Shorter DEF TypeOK
    <2>4. Matches(c, Head(m_responseList)) => executed[c]
      BY <2>1, <2>3 DEF RepliesAreTrue
    <2>5. TrueMeansExecuted'
      BY <2>1, <2>4 DEF TrueMeansExecuted
    <2>. QED
      BY <2>2, <2>5
  <1>8. CASE AdapterExecutes
    <2>. DEFINE f == Head(toAdapter)
    <2>1. PICK kind \in {"REPLY", "CAPS_RESPONSE"} :
              toDriver' = Append(toDriver, Response(kind, f.seq, f.code))
      BY <1>8 DEF AdapterExecutes, Arrives
    <2>2. Response(kind, f.seq, f.code) \in Responses
      <3>1. f \in CommandFrames
        BY <1>8, Shorter DEF AdapterExecutes, TypeOK
      <3>. QED
        BY <3>1 DEF Response, Responses, CommandFrames
    <2>3. \A d \in Callers :
             /\ executed[d] => executed'[d]
             /\ (pc[d] # "idle" /\ call[d].code = f.code) => executed'[d]
      BY <1>8 DEF AdapterExecutes
    <2>4. UNCHANGED <<pc, call, ok, m_responseList>>
      BY <1>8 DEF AdapterExecutes
    <2>5. Response(kind, f.seq, f.code).code = f.code
      BY DEF Response
    <2>6. \A i \in 1..Len(toDriver') :
             \/ i \in 1..Len(toDriver) /\ toDriver'[i] = toDriver[i]
             \/ toDriver'[i] = Response(kind, f.seq, f.code)
      BY <2>1, <2>2, Longer DEF TypeOK
    <2>. HIDE DEF f
    <2>. QED
      BY <2>3, <2>4, <2>5, <2>6, Quiet, NobodyReturns
  <1>9. CASE AdapterRefuses \/ AdapterAcknowledges
    <2>1. PICK kind \in {"REFUSAL", "ACK"}, seq \in Seqs,
               code \in Codes \cup {"none"} :
              toDriver' = Append(toDriver, Response(kind, seq, code))
      <3>1. CASE AdapterRefuses
        <4>1. Head(toAdapter) \in CommandFrames
          BY <3>1, Shorter DEF AdapterRefuses, TypeOK
        <4>. QED
          BY <3>1, <4>1 DEF AdapterRefuses, Arrives, CommandFrames
      <3>2. CASE AdapterAcknowledges
        BY <3>2 DEF AdapterAcknowledges, Arrives
      <3>. QED
        BY <1>9, <3>1, <3>2
    <2>2. /\ Response(kind, seq, code) \in Responses
          /\ Response(kind, seq, code).kind # "REPLY"
      BY DEF Response, Responses
    <2>3. \A i \in 1..Len(toDriver') :
             \/ i \in 1..Len(toDriver) /\ toDriver'[i] = toDriver[i]
             \/ toDriver'[i] = Response(kind, seq, code)
      BY <2>1, <2>2, Longer DEF TypeOK
    <2>4. UNCHANGED <<pc, call, ok, m_responseList, executed>>
      BY <1>9 DEF AdapterRefuses, AdapterAcknowledges
    <2>. QED
      BY <2>2, <2>3, <2>4, Quiet, NobodyReturns
  <1>10. CASE LoseFrame
    <2>1. UNCHANGED <<pc, call, ok, m_responseList, toDriver, executed>>
      BY <1>10 DEF LoseFrame
    <2>. QED
      BY <2>1, Quiet, NobodyReturns
  <1>11. CASE LoseReply
    <2>1. /\ UNCHANGED <<pc, call, ok, m_responseList, executed>>
          /\ toDriver # <<>> /\ toDriver' = Tail(toDriver)
      BY <1>11 DEF LoseReply
    <2>. QED
      BY <2>1, Rest, Quiet, NobodyReturns DEF TypeOK
  <1>12. CASE addToResponseQueue
    <2>1. /\ UNCHANGED <<pc, call, ok, executed>>
          /\ toDriver # <<>> /\ toDriver' = Tail(toDriver)
          /\ m_responseList' = Append(Bounded, Head(toDriver))
      BY <1>12 DEF addToResponseQueue
    <2>2. /\ Head(toDriver) \in Responses /\ Head(toDriver) = toDriver[1]
          /\ 1 \in 1..Len(toDriver)
      BY <2>1, Shorter DEF TypeOK
    <2>3. \A i \in 1..Len(m_responseList') :
             \/ i \in 1..Len(Bounded) /\ m_responseList'[i] = Bounded[i]
             \/ m_responseList'[i] = toDriver[1]
      BY <2>1, <2>2, BoundedIsPart, Longer
    <2>4. \A i \in 1..Len(toDriver') :
              \E j \in 1..Len(toDriver) : toDriver'[i] = toDriver[j]
      BY <2>1, Rest DEF TypeOK
    <2>5. ASSUME NEW i \in 1..Len(m_responseList')
          PROVE  \/ \E j \in 1..Len(m_responseList) : m_responseList'[i] = m_responseList[j]
                 \/ \E j \in 1..Len(toDriver) : m_responseList'[i] = toDriver[j]
      BY <2>2, <2>3, BoundedIsPart
    <2>6. RepliesAreTrue'
      BY <2>1, <2>4, <2>5, Quiet
    <2>7. TrueMeansExecuted'
      BY <2>1, NobodyReturns
    <2>. QED
      BY <2>6, <2>7
  <1>. QED
    BY <1>1, <1>2, <1>3, <1>4, <1>5, <1>6, <1>7, <1>8, <1>9, <1>10, <1>11,
       <1>12 DEF Next, Caller

LEMMA Invariance ==
    ASSUME LateReplies
    PROVE  Spec => []IInv
  <1>1. Init => IInv
    BY TypeInit DEF Init, IInv, RepliesAreTrue, TrueMeansExecuted
  <1>2. IInv /\ [Next]_vars => IInv'
    BY TypeStep, ReplyStep DEF IInv
  <1>. QED
    BY <1>1, <1>2, PTL DEF Spec

\* sendCommandWait returns TRUE only for a command that the adapter has
\* carried out since the call began: for any number of callers, provided no
\* reply outlives the range of sequence numbers.
THEOREM TrueIsConfirmed ==
    ASSUME LateReplies
    PROVE  Spec => []TrueMeansExecuted
  BY Invariance, PTL DEF IInv
-----------------------------------------------------------------------------
(* The refinement.                                                         *)

Queued   == {toAdapter[i].code : i \in 1..Len(toAdapter)}
Starting == {call[c].code : c \in {d \in Callers :
                 pc[d] \in {"load", "store", "clear", "send"}}}

LEMMA OutstandingSplit == serviceOutstanding = Queued \cup Starting
  BY DEF serviceOutstanding, Queued, Starting

LEMMA OutstandingSplitNext == serviceOutstanding' = Queued' \cup Starting'
  BY DEF serviceOutstanding, Queued, Starting

\* Taking the oldest frame off the line removes at most its own code.
LEMMA FrameGone ==
    ASSUME TypeOK, toAdapter # <<>>, toAdapter' = Tail(toAdapter),
           UNCHANGED <<pc, call>>
    PROVE  /\ Head(toAdapter) \in CommandFrames
           /\ Head(toAdapter).code \in serviceOutstanding
           /\ serviceOutstanding' \in
                 {serviceOutstanding,
                  serviceOutstanding \ {Head(toAdapter).code}}
  <1>. DEFINE f == Head(toAdapter)
  <1>1. /\ f \in CommandFrames /\ f = toAdapter[1] /\ 1 \in 1..Len(toAdapter)
        /\ Len(Tail(toAdapter)) = Len(toAdapter) - 1
        /\ \A i \in 1..Len(Tail(toAdapter)) :
              i + 1 \in 1..Len(toAdapter)
              /\ Tail(toAdapter)[i] = toAdapter[i + 1]
    BY Shorter DEF TypeOK
  <1>2. f.code \in Queued
    BY <1>1 DEF Queued
  <1>3. \A i \in 1..Len(toAdapter) :
           i = 1 \/ (i - 1 \in 1..Len(Tail(toAdapter))
                      /\ Tail(toAdapter)[i - 1] = toAdapter[i])
    BY <1>1 DEF TypeOK
  <1>4. Queued' \subseteq Queued
    BY <1>1 DEF Queued
  <1>5. Queued \subseteq Queued' \cup {f.code}
    <2>1. SUFFICES ASSUME NEW i \in 1..Len(toAdapter), toAdapter[i].code # f.code
                   PROVE  toAdapter[i].code \in Queued'
      BY DEF Queued
    <2>2. /\ i - 1 \in 1..Len(Tail(toAdapter))
          /\ Tail(toAdapter)[i - 1] = toAdapter[i]
      BY <1>1, <1>3, <2>1
    <2>. QED
      BY <2>2 DEF Queued
  <1>6. Starting' = Starting
    BY DEF Starting
  <1>. HIDE DEF f
  <1>7. Queued' \cup Starting' \in
           {Queued \cup Starting, (Queued \cup Starting) \ {f.code}}
    BY <1>4, <1>5, <1>6
  <1>. QED
    BY <1>1, <1>2, <1>7, OutstandingSplit, OutstandingSplitNext DEF f

\* A caller that returns leaves at most the frames on the line.
LEMMA CallerGone ==
    ASSUME TypeOK, NEW c \in Callers, UNCHANGED <<call, toAdapter>>,
           pc' = [pc EXCEPT ![c] = "idle"]
    PROVE  serviceOutstanding' \in SUBSET serviceOutstanding
  <1>1. Queued' = Queued
    BY DEF Queued
  <1>2. Starting' \subseteq Starting
    BY DEF Starting, TypeOK
  <1>. QED
    BY <1>1, <1>2, OutstandingSplit, OutstandingSplitNext

\* What the mapping shows of a caller that returns.
LEMMA ReturnStep ==
    ASSUME TypeOK, CallsHaveCodes, NEW c \in Callers, NEW answer \in BOOLEAN,
           UNCHANGED <<call, toAdapter, executed>>,
           pc[c] # "idle", pc' = [pc EXCEPT ![c] = "idle"],
           ok' = [ok EXCEPT ![c] = answer],
           answer => executed[c] \/ call[c].code = Capabilities,
           "none" \notin Codes
    PROVE  Promise!Return(c, answer)
  <1>1. /\ serviceCall[c] = [code |-> call[c].code, executed |-> executed[c]]
        /\ call[c].code # "none"
    BY DEF serviceCall, CallsHaveCodes
  <1>2. serviceCall[c] # Promise!NoCall
    BY <1>1 DEF Promise!NoCall
  <1>3. answer => serviceCall[c].executed \/ serviceCall[c].code \in {Capabilities}
    BY <1>1
  <1>4. serviceCall' = [serviceCall EXCEPT ![c] = Promise!NoCall]
    BY DEF serviceCall, Promise!NoCall, TypeOK
  <1>. QED
    BY <1>2, <1>3, <1>4, CallerGone DEF Promise!Return

LEMMA RefinementStep ==
    ASSUME IInv, [Next]_vars
    PROVE  Promise!Next \/ UNCHANGED <<serviceCall, ok, serviceOutstanding>>
  <1>. USE CommandChannelAssumption DEF IInv, lineVars
  <1>1. CASE UNCHANGED vars
    BY <1>1 DEF vars, serviceCall, serviceOutstanding
  <1>2. ASSUME NEW c \in Callers, SaveSeq(c) PROVE Promise!Next
    <2>1. PICK code \in Codes :
             /\ pc[c] = "idle" /\ pc' = [pc EXCEPT ![c] = "load"]
             /\ call' = [call EXCEPT ![c] =
                            [code |-> code, saveseq |-> m_sequencyno, seq |-> 0]]
             /\ executed' = [executed EXCEPT ![c] = FALSE]
             /\ UNCHANGED <<ok, toAdapter>>
      <3>1. CodesAfter[c][call[c].code] \subseteq Codes
        BY DEF TypeOK
      <3>. QED
        BY <1>2, <3>1 DEF SaveSeq, CallerAt
    <2>2. serviceCall[c] = Promise!NoCall
      BY <2>1 DEF serviceCall, Promise!NoCall
    <2>3. serviceCall' = [serviceCall EXCEPT ![c] =
                             [code |-> code, executed |-> FALSE]]
      BY <2>1 DEF serviceCall, TypeOK
    <2>4. Queued' = Queued
      BY <2>1 DEF Queued
    <2>5. Starting' = Starting \cup {code}
      <3>1. /\ pc'[c] = "load" /\ call'[c].code = code
            /\ \A d \in Callers \ {c} : pc'[d] = pc[d] /\ call'[d] = call[d]
        BY <2>1 DEF TypeOK
      <3>. QED
        BY <2>1, <3>1 DEF Starting
    <2>6. serviceOutstanding' = serviceOutstanding \cup {code}
      BY <2>4, <2>5, OutstandingSplit, OutstandingSplitNext
    <2>. QED
      BY <2>1, <2>2, <2>3, <2>6 DEF Promise!Next, Promise!Begin
  <1>3. ASSUME NEW c \in Callers, LoadSeq(c) \/ StoreSeq(c) \/ ClearList(c)
        PROVE  UNCHANGED <<serviceCall, ok, serviceOutstanding>>
    <2>1. /\ UNCHANGED <<ok, toAdapter, executed>>
          /\ \A d \in Callers :
                /\ call'[d].code = call[d].code
                /\ pc'[d] = "idle" <=> pc[d] = "idle"
                /\ pc'[d] \in {"load", "store", "clear", "send"}
                      <=> pc[d] \in {"load", "store", "clear", "send"}
      BY <1>3 DEF LoadSeq, StoreSeq, ClearList, CallerAt, TypeOK
    <2>2. serviceCall' = serviceCall
      BY <2>1 DEF serviceCall
    <2>3. Queued' = Queued
      BY <2>1 DEF Queued
    <2>4. Starting' = Starting
      BY <2>1 DEF Starting
    <2>. QED
      BY <2>1, <2>2, <2>3, <2>4, OutstandingSplit, OutstandingSplitNext
  <1>4. ASSUME NEW c \in Callers, Send(c)
        PROVE  UNCHANGED <<serviceCall, ok, serviceOutstanding>>
    <2>1. /\ UNCHANGED <<ok, executed, call>>
          /\ pc[c] = "send" /\ pc'[c] = "wait"
          /\ \A d \in Callers \ {c} : pc'[d] = pc[d]
          /\ toAdapter' = Append(toAdapter,
                                 [code |-> call[c].code, seq |-> call[c].seq])
      BY <1>4 DEF Send, CallerAt, TypeOK
    <2>2. serviceCall' = serviceCall
      BY <2>1 DEF serviceCall
    <2>3. Queued' = Queued \cup {call[c].code}
      <3>1. toAdapter \in Seq(CommandFrames)
        BY DEF TypeOK
      <3>2. [code |-> call[c].code, seq |-> call[c].seq] \in CommandFrames
        BY <2>1 DEF CommandFrames, CallsHaveCodes, TypeOK
      <3>3. /\ Len(toAdapter') = Len(toAdapter) + 1 /\ Len(toAdapter) \in Nat
            /\ toAdapter'[Len(toAdapter) + 1].code = call[c].code
            /\ \A i \in 1..Len(toAdapter) : toAdapter'[i] = toAdapter[i]
        BY <2>1, <3>1, <3>2
      <3>. QED
        BY <3>3 DEF Queued
    <2>4. Starting = Starting' \cup {call[c].code}
      BY <2>1 DEF Starting
    <2>. QED
      BY <2>1, <2>2, <2>3, <2>4, OutstandingSplit, OutstandingSplitNext
  <1>5. ASSUME NEW c \in Callers, SendFails(c) \/ GiveUp(c)
        PROVE  Promise!Next
    <2>1. PICK answer \in BOOLEAN :
             /\ UNCHANGED <<call, toAdapter, executed>>
             /\ pc[c] # "idle" /\ pc' = [pc EXCEPT ![c] = "idle"]
             /\ ok' = [ok EXCEPT ![c] = answer]
             /\ answer => call[c].code = Capabilities
      <3>1. CASE SendFails(c)
        BY <3>1 DEF SendFails, CallerAt
      <3>2. CASE GiveUp(c)
        BY <3>2 DEF GiveUp, CallerAt
      <3>. QED
        BY <1>5, <3>1, <3>2
    <2>. QED
      BY <2>1, ReturnStep DEF Promise!Next
  <1>6. ASSUME NEW c \in Callers, TakeOldest(c)
        PROVE  Promise!Next \/ UNCHANGED <<serviceCall, ok, serviceOutstanding>>
    <2>1. UNCHANGED <<call, toAdapter, executed>> /\ m_responseList # <<>>
      BY <1>6 DEF TakeOldest
    <2>2. CASE /\ Matches(c, Head(m_responseList))
               /\ CallerAt(c, "wait", "idle")
               /\ ok' = [ok EXCEPT ![c] = TRUE]
      <3>1. pc[c] # "idle" /\ pc' = [pc EXCEPT ![c] = "idle"]
        BY <2>2 DEF CallerAt
      <3>2. m_responseList[1] = Head(m_responseList)
            /\ 1 \in 1..Len(m_responseList)
        BY <2>1, Shorter DEF TypeOK
      <3>3. executed[c]
        BY <2>2, <3>1, <3>2 DEF RepliesAreTrue
      <3>. QED
        BY <2>1, <2>2, <3>1, <3>3, ReturnStep DEF Promise!Next
    <2>3. CASE CallerAt(c, "wait", "wait") /\ UNCHANGED ok
      <3>1. pc' = pc
        BY <2>3 DEF CallerAt, TypeOK
      <3>. QED
        BY <2>1, <2>3, <3>1 DEF serviceCall, serviceOutstanding
    <2>. QED
      BY <1>6, <2>2, <2>3 DEF TakeOldest
  <1>7. CASE AdapterExecutes
    <2>. DEFINE f == Head(toAdapter)
    <2>1. /\ toAdapter # <<>> /\ toAdapter' = Tail(toAdapter)
          /\ UNCHANGED <<pc, call, ok>>
          /\ executed' = [c \in Callers |->
                 executed[c] \/ (pc[c] # "idle" /\ call[c].code = f.code)]
      BY <1>7 DEF AdapterExecutes
    <2>2. /\ f.code \in serviceOutstanding /\ f \in CommandFrames
          /\ serviceOutstanding' \in
                {serviceOutstanding, serviceOutstanding \ {f.code}}
      BY <2>1, FrameGone
    <2>3. f.code \in Codes /\ f.code # "none"
      BY <2>2 DEF CommandFrames
    <2>. HIDE DEF f
    <2>4. serviceCall' = [c \in Callers |->
              [serviceCall[c] EXCEPT !.executed =
                   @ \/ serviceCall[c].code = f.code]]
      BY <2>1, <2>3 DEF serviceCall, TypeOK
    <2>. QED
      BY <2>1, <2>2, <2>3, <2>4 DEF Promise!Next, Promise!Execute
  <1>8. CASE AdapterRefuses \/ LoseFrame
    <2>1. /\ toAdapter # <<>> /\ toAdapter' = Tail(toAdapter)
          /\ UNCHANGED <<pc, call, ok, executed>>
      BY <1>8 DEF AdapterRefuses, LoseFrame
    <2>2. serviceCall' = serviceCall
      BY <2>1 DEF serviceCall
    <2>. QED
      BY <2>1, <2>2, FrameGone DEF Promise!Next, Promise!Forget
  <1>9. CASE AdapterAcknowledges \/ LoseReply \/ addToResponseQueue
    <2>1. UNCHANGED <<pc, call, ok, executed, toAdapter>>
      BY <1>9 DEF AdapterAcknowledges, LoseReply, addToResponseQueue
    <2>. QED
      BY <2>1 DEF serviceCall, serviceOutstanding
  <1>. QED
    BY <1>1, <1>2, <1>3, <1>4, <1>5, <1>6, <1>7, <1>8, <1>9 DEF Next, Caller

LEMMA RefinementInit == Init => Promise!Init
  BY DEF Init, Promise!Init, Promise!NoCall, serviceCall, serviceOutstanding

\* The command channel implements CommandService: whatever is lost, refused,
\* late or taken by the wrong caller, TRUE is returned only for a command
\* carried out since the call began, for any number of callers.
THEOREM Refinement ==
    ASSUME LateReplies
    PROVE  Spec => ImplementsService
  <1>1. IInv /\ [Next]_vars => [Promise!Next]_<<serviceCall, ok, serviceOutstanding>>
    BY RefinementStep
  <1>. QED
    BY <1>1, RefinementInit, Invariance, PTL
       DEF Spec, ImplementsService, Promise!Spec, Promise!vars

-----------------------------------------------------------------------------
(* A caller that is alone.                                                 *)

\* Where what ends the call of c well is: its frame, or the reply to it, is on
\* the line, or the reply is in the list and fewer responses than would push
\* it out have come since the frame was sent.
FrameUnderWay(c) ==
    \E i \in 1..Len(toAdapter) :
        toAdapter[i].seq = call[c].seq /\ toAdapter[i].code = call[c].code
ReplyUnderWay(c) == \E i \in 1..Len(toDriver) : Matches(c, toDriver[i])
ReplyListed(c) ==
    \E i \in 1..Len(m_responseList) :
        Matches(c, m_responseList[i]) /\ received[c] + i > Len(m_responseList)
AnswerUnderWay(c) == FrameUnderWay(c) \/ ReplyUnderWay(c) \/ ReplyListed(c)

\* The number in the frame is the one that the caller waits for.
OwnNumber(c) ==
    /\ pc[c] = "load" => m_sequencyno = call[c].saveseq
    /\ pc[c] \in {"store", "clear", "send", "wait"} => call[c].seq = call[c].saveseq

Waits(c) == pc[c] = "wait" /\ received[c] < Excuse /\ call[c].code # Capabilities

SoleInv(c) ==
    /\ OwnNumber(c)
    /\ Waits(c) => AnswerUnderWay(c)
    /\ pc[c] = "idle" /\ ~ok[c] => received[c] = Excuse

LEMMA SoleInit ==
    ASSUME Init, NEW c \in Callers
    PROVE  SoleInv(c)
  BY DEF Init, SoleInv, OwnNumber, Waits

\* The steps of a caller who is not waiting.
LEMMA SoleCallStep ==
    ASSUME TypeOK, NEW c \in Callers, SoleInv(c),
           \/ SaveSeq(c) \/ LoadSeq(c) \/ StoreSeq(c) \/ ClearList(c)
           \/ Send(c) \/ SendFails(c)
    PROVE  SoleInv(c)'
  <1>. USE CommandChannelAssumption DEF TypeOK
  <1>1. CASE SaveSeq(c) \/ LoadSeq(c) \/ StoreSeq(c) \/ ClearList(c)
    <2>1. pc'[c] \in {"load", "store", "clear", "send"}
      BY <1>1 DEF SaveSeq, LoadSeq, StoreSeq, ClearList, CallerAt
    <2>2. OwnNumber(c)'
      BY <1>1 DEF SaveSeq, LoadSeq, StoreSeq, ClearList, CallerAt, LoadedSeq, SoleInv, OwnNumber
    <2>. QED
      BY <2>1, <2>2 DEF SoleInv, Waits
  <1>2. CASE Send(c)
    <2>. DEFINE f == [code |-> call[c].code, seq |-> call[c].seq]
    <2>1. /\ pc[c] = "send" /\ pc'[c] = "wait" /\ UNCHANGED call
          /\ toAdapter' = Append(toAdapter, f)
      BY <1>2 DEF Send, CallerAt
    <2>2. f.seq = call[c].seq /\ f.code = call[c].code
      OBVIOUS
    <2>. HIDE DEF f
    <2>3. Len(toAdapter) + 1 \in 1..Len(toAdapter') /\ toAdapter'[Len(toAdapter) + 1] = f
      BY <2>1
    <2>4. FrameUnderWay(c)'
      BY <2>1, <2>2, <2>3 DEF FrameUnderWay
    <2>5. OwnNumber(c)'
      BY <2>1 DEF SoleInv, OwnNumber
    <2>. QED
      BY <2>1, <2>4, <2>5 DEF SoleInv, AnswerUnderWay
  <1>3. CASE SendFails(c)
    BY <1>3 DEF SendFails, CallerAt, SoleInv, OwnNumber, Waits, Excused
  <1>. QED
    BY <1>1, <1>2, <1>3

\* It takes a response out of the list, or its time is up.
LEMMA SoleWaitStep ==
    ASSUME TypeOK, CallsHaveCodes, NEW c \in Callers, SoleInv(c),
           TakeOldest(c) \/ GiveUp(c)
    PROVE  SoleInv(c)'
  <1>. USE CommandChannelAssumption DEF TypeOK
  <1>1. CASE TakeOldest(c)
    <2>1. /\ m_responseList # <<>> /\ m_responseList' = Tail(m_responseList)
          /\ UNCHANGED <<m_sequencyno, call, toAdapter, toDriver, received>>
          /\ pc[c] = "wait"
      BY <1>1 DEF TakeOldest, CallerAt, lineVars
    <2>2. CASE pc'[c] = "idle" /\ ok'[c]
      BY <2>2 DEF SoleInv, OwnNumber, Waits
    <2>3. CASE ~Matches(c, Head(m_responseList)) /\ pc'[c] = "wait"
      <3>1. OwnNumber(c)'
        BY <2>1, <2>3 DEF SoleInv, OwnNumber
      <3>2. ASSUME ReplyListed(c) PROVE ReplyListed(c)'
        <4>1. PICK i \in 1..Len(m_responseList) :
                  Matches(c, m_responseList[i]) /\ received[c] + i > Len(m_responseList)
          BY <3>2 DEF ReplyListed
        <4>2. /\ Head(m_responseList) = m_responseList[1]
              /\ Len(m_responseList') = Len(m_responseList) - 1
              /\ \A k \in 1..Len(m_responseList) - 1 :
                    m_responseList'[k] = m_responseList[k + 1]
          BY <2>1, Shorter
        <4>3. i # 1
          BY <2>3, <4>1, <4>2
        <4>4. /\ i - 1 \in 1..Len(m_responseList') /\ m_responseList'[i - 1] = m_responseList[i]
              /\ received'[c] + (i - 1) > Len(m_responseList')
          BY <2>1, <4>1, <4>2, <4>3
        <4>. QED
          BY <2>1, <4>1, <4>4 DEF ReplyListed, Matches
      <3>3. FrameUnderWay(c) \/ ReplyUnderWay(c) => FrameUnderWay(c)' \/ ReplyUnderWay(c)'
        BY <2>1 DEF FrameUnderWay, ReplyUnderWay, Matches
      <3>4. Waits(c)' => AnswerUnderWay(c)'
        BY <2>1, <2>3, <3>2, <3>3 DEF SoleInv, AnswerUnderWay, Waits, Excuse
      <3>. QED
        BY <2>3, <3>1, <3>4 DEF SoleInv
    <2>. QED
      BY <1>1, <2>2, <2>3 DEF TakeOldest, CallerAt
  <1>2. CASE GiveUp(c)
    <2>1. /\ pc[c] = "wait" /\ pc'[c] = "idle"
          /\ ok'[c] = (call[c].code = Capabilities)
          /\ received' = Excused({c} \ {d \in Callers : NothingToCome(d)})
      BY <1>2 DEF GiveUp, CallerAt
    <2>2. CASE NothingToCome(c)
      <3>1. received'[c] = received[c]
        BY <2>1, <2>2 DEF Excused
      <3>2. ~AnswerUnderWay(c)
        <4>1. call[c].seq = call[c].saveseq
          BY <2>1 DEF SoleInv, OwnNumber
        <4>. QED
          BY <2>2, <4>1 DEF NothingToCome, AnswerUnderWay, FrameUnderWay, ReplyUnderWay,
                            ReplyListed, Matches
      <3>3. ~Waits(c)
        BY <3>2 DEF SoleInv
      <3>4. received[c] \in 0..Excuse /\ Excuse \in Nat
        BY DEF Excuse
      <3>5. ~ok'[c] => received[c] = Excuse
        <4>1. received[c] # Excuse => received[c] < Excuse
          BY <3>4
        <4>2. ~ok'[c] => call[c].code # Capabilities
          BY <2>1
        <4>. QED
          BY <2>1, <3>3, <4>1, <4>2 DEF Waits
      <3>. QED
        BY <2>1, <3>1, <3>5 DEF SoleInv, OwnNumber, Waits
    <2>3. CASE ~NothingToCome(c)
      <3>1. received'[c] = Excuse
        BY <2>1, <2>3 DEF Excused
      <3>. QED
        BY <2>1, <3>1 DEF SoleInv, OwnNumber, Waits, Excuse
    <2>. QED
      BY <2>2, <2>3
  <1>. QED
    BY <1>1, <1>2

\* The line, the adapter and the RX thread leave the caller where it is.
LEMMA SoleLineStep ==
    ASSUME TypeOK, CallsHaveCodes, NEW c \in Callers, SoleInv(c),
           \/ AdapterExecutes \/ AdapterRefuses \/ AdapterAcknowledges
           \/ LoseFrame \/ LoseReply \/ addToResponseQueue
    PROVE  SoleInv(c)'
  <1>. USE CommandChannelAssumption DEF TypeOK
  <1>0. ASSUME NEW who PROVE Excused(who)[c] = IF c \in who THEN Excuse ELSE received[c]
    BY DEF Excused
  <1>1. UNCHANGED <<m_sequencyno, pc, call, ok>>
    BY DEF AdapterExecutes, AdapterRefuses, AdapterAcknowledges, LoseFrame, LoseReply,
           addToResponseQueue
  <1>2. OwnNumber(c)'
    BY <1>1 DEF SoleInv, OwnNumber
  <1>3. received'[c] = received[c] \/ received'[c] = Excuse
        \/ (pc[c] = "wait" /\ received[c] < Excuse /\ received'[c] = received[c] + 1)
    BY DEF AdapterExecutes, AdapterRefuses, AdapterAcknowledges, LoseFrame, LoseReply,
           addToResponseQueue, Excused, CallersOf
  <1>4. pc[c] = "idle" /\ ~ok[c] => received'[c] = Excuse
    <2>. SUFFICES ASSUME pc[c] = "idle", ~ok[c] PROVE received'[c] = Excuse
      OBVIOUS
    <2>1. received[c] = Excuse
      BY DEF SoleInv
    <2>. QED
      BY <1>3, <2>1
  <1>5. ASSUME Waits(c)' PROVE AnswerUnderWay(c)'
    <2>1. /\ pc[c] = "wait" /\ call[c].code # Capabilities /\ call[c].code \in Codes
          /\ received'[c] < Excuse /\ received[c] \in 0..Excuse
          /\ call[c].seq = call[c].saveseq
      BY <1>1, <1>5 DEF Waits, CallsHaveCodes, SoleInv, OwnNumber
    <2>2. received[c] < Excuse
      BY <1>3, <2>1 DEF Excuse
    <2>3. AnswerUnderWay(c)
      BY <2>1, <2>2 DEF SoleInv, Waits
    <2>4. \A r : Matches(c, r)' <=> Matches(c, r)
      BY <1>1 DEF Matches
    <2>5. /\ toAdapter # <<>> => \A i \in 1..Len(toAdapter) :
                 \/ i = 1 /\ toAdapter[i] = Head(toAdapter)
                 \/ /\ i - 1 \in 1..Len(Tail(toAdapter))
                    /\ Tail(toAdapter)[i - 1] = toAdapter[i]
          /\ toDriver # <<>> => \A i \in 1..Len(toDriver) :
                 \/ i = 1 /\ toDriver[i] = Head(toDriver)
                 \/ /\ i - 1 \in 1..Len(Tail(toDriver))
                    /\ Tail(toDriver)[i - 1] = toDriver[i]
      OBVIOUS
    <2>6. ASSUME NEW response \in Responses, toDriver' = Append(toDriver, response)
          PROVE  /\ ReplyUnderWay(c) => ReplyUnderWay(c)'
                 /\ Matches(c, response) => ReplyUnderWay(c)'
      <3>1. /\ Len(toDriver') = Len(toDriver) + 1 /\ Len(toDriver) \in Nat
            /\ toDriver'[Len(toDriver) + 1] = response
            /\ \A i \in 1..Len(toDriver) : toDriver'[i] = toDriver[i]
        BY <2>6
      <3>2. Len(toDriver) + 1 \in 1..Len(toDriver')
            /\ \A i \in 1..Len(toDriver) : i \in 1..Len(toDriver')
        BY <3>1
      <3>. QED
        BY <2>4, <3>1, <3>2 DEF ReplyUnderWay
    <2>7. ASSUME UNCHANGED <<m_responseList, received>>
          PROVE  ReplyListed(c) => ReplyListed(c)'
      BY <2>4, <2>7 DEF ReplyListed
    <2>8. ASSUME toAdapter # <<>>, toAdapter' = Tail(toAdapter), FrameUnderWay(c)
          PROVE  \/ FrameUnderWay(c)'
                 \/ Head(toAdapter).seq = call[c].seq /\ Head(toAdapter).code = call[c].code
      <3>1. PICK i \in 1..Len(toAdapter) :
                toAdapter[i].seq = call[c].seq /\ toAdapter[i].code = call[c].code
        BY <2>8 DEF FrameUnderWay
      <3>2. CASE toAdapter[i] = Head(toAdapter)
        BY <3>1, <3>2
      <3>3. CASE i - 1 \in 1..Len(toAdapter') /\ toAdapter'[i - 1] = toAdapter[i]
        BY <1>1, <3>1, <3>3 DEF FrameUnderWay
      <3>. QED
        BY <2>5, <2>8, <3>2, <3>3
    <2>9. CASE AdapterExecutes
      <3>. DEFINE f == Head(toAdapter)
                  r == Response("REPLY", f.seq, f.code)
      <3>1. /\ toAdapter # <<>> /\ toAdapter' = Tail(toAdapter)
            /\ UNCHANGED <<m_responseList, received>>
        BY <2>9 DEF AdapterExecutes
      <3>2. f \in CommandFrames
        BY <3>1, Shorter
      <3>3. PICK kind \in {"REPLY", "CAPS_RESPONSE"} :
                /\ toDriver' = Append(toDriver, Response(kind, f.seq, f.code))
                /\ f.code # Capabilities => kind = "REPLY"
        BY <2>9 DEF AdapterExecutes, Arrives
      <3>4. Response(kind, f.seq, f.code) \in Responses
        BY <3>2 DEF Response, Responses, CommandFrames
      <3>5. ReplyUnderWay(c) => ReplyUnderWay(c)'
        BY <2>6, <3>3, <3>4
      <3>6. ReplyListed(c) => ReplyListed(c)'
        BY <2>7, <3>1
      <3>7. FrameUnderWay(c) => FrameUnderWay(c)' \/ ReplyUnderWay(c)'
        <4>1. ASSUME f.seq = call[c].seq, f.code = call[c].code
              PROVE  Matches(c, Response(kind, f.seq, f.code))
          BY <2>1, <3>3, <4>1 DEF Response, Matches
        <4>. QED
          BY <2>6, <2>8, <3>1, <3>3, <3>4, <4>1
      <3>. QED
        BY <2>3, <3>5, <3>6, <3>7 DEF AnswerUnderWay
    <2>10. CASE AdapterRefuses \/ LoseFrame
      <3>1. /\ toAdapter # <<>> /\ toAdapter' = Tail(toAdapter)
            /\ UNCHANGED m_responseList
            /\ received' = Excused(CallersOf(Head(toAdapter)))
        BY <2>10 DEF AdapterRefuses, LoseFrame
      <3>2. c \notin CallersOf(Head(toAdapter)) /\ received'[c] = received[c]
        <4>1. received'[c] = IF c \in CallersOf(Head(toAdapter)) THEN Excuse ELSE received[c]
          BY <1>0, <3>1
        <4>2. received'[c] # Excuse
          BY <2>1 DEF Excuse
        <4>. QED
          BY <4>1, <4>2
      <3>3. ~(Head(toAdapter).seq = call[c].seq /\ Head(toAdapter).code = call[c].code)
        BY <2>1, <3>2 DEF CallersOf
      <3>4. FrameUnderWay(c) => FrameUnderWay(c)'
        BY <2>8, <3>1, <3>3
      <3>5. ReplyUnderWay(c) => ReplyUnderWay(c)'
        <4>1. CASE LoseFrame
          BY <2>4, <4>1 DEF LoseFrame, ReplyUnderWay
        <4>2. CASE AdapterRefuses
          <5>. DEFINE r == Response("REFUSAL", Head(toAdapter).seq, Head(toAdapter).code)
          <5>1. Head(toAdapter) \in CommandFrames
            BY <3>1, Shorter
          <5>2. r \in Responses /\ toDriver' = Append(toDriver, r)
            BY <4>2, <5>1 DEF AdapterRefuses, Arrives, Response, Responses, CommandFrames
          <5>. QED
            BY <2>6, <5>2
        <4>. QED
          BY <2>10, <4>1, <4>2
      <3>6. ReplyListed(c) => ReplyListed(c)'
        BY <2>4, <3>1, <3>2 DEF ReplyListed
      <3>. QED
        BY <2>3, <3>4, <3>5, <3>6 DEF AnswerUnderWay
    <2>11. CASE AdapterAcknowledges
      <3>1. PICK seq \in Seqs : toDriver' = Append(toDriver, Response("ACK", seq, "none"))
        BY <2>11 DEF AdapterAcknowledges, Arrives
      <3>2. Response("ACK", seq, "none") \in Responses
        BY DEF Response, Responses
      <3>3. UNCHANGED <<m_responseList, received, toAdapter>>
        BY <2>11 DEF AdapterAcknowledges
      <3>4. FrameUnderWay(c) => FrameUnderWay(c)'
        BY <1>1, <3>3 DEF FrameUnderWay
      <3>. QED
        BY <2>3, <2>6, <2>7, <3>1, <3>2, <3>3, <3>4 DEF AnswerUnderWay
    <2>12. CASE LoseReply
      <3>1. /\ toDriver # <<>> /\ toDriver' = Tail(toDriver)
            /\ UNCHANGED <<m_responseList, toAdapter>>
            /\ received' = Excused(CallersOf(Head(toDriver)))
        BY <2>12 DEF LoseReply
      <3>2. c \notin CallersOf(Head(toDriver)) /\ received'[c] = received[c]
        <4>1. received'[c] = IF c \in CallersOf(Head(toDriver)) THEN Excuse ELSE received[c]
          BY <1>0, <3>1
        <4>2. received'[c] # Excuse
          BY <2>1 DEF Excuse
        <4>. QED
          BY <4>1, <4>2
      <3>3. ~Matches(c, Head(toDriver))
        BY <2>1, <3>2 DEF CallersOf, Matches
      <3>4. ReplyUnderWay(c) => ReplyUnderWay(c)'
        BY <2>4, <2>5, <3>1, <3>3 DEF ReplyUnderWay
      <3>5. FrameUnderWay(c) => FrameUnderWay(c)'
        BY <1>1, <3>1 DEF FrameUnderWay
      <3>6. ReplyListed(c) => ReplyListed(c)'
        BY <2>4, <3>1, <3>2 DEF ReplyListed
      <3>. QED
        BY <2>3, <3>4, <3>5, <3>6 DEF AnswerUnderWay
    <2>13. CASE addToResponseQueue
      <3>1. /\ toDriver # <<>> /\ toDriver' = Tail(toDriver) /\ UNCHANGED toAdapter
            /\ m_responseList' = Append(Bounded, Head(toDriver))
            /\ received'[c] = received[c] + 1
        BY <2>1, <2>2, <2>13 DEF addToResponseQueue
      <3>2. Head(toDriver) \in Responses
        BY <3>1, Shorter
      <3>3. /\ Bounded \in Seq(Responses)
            /\ \/ Bounded = m_responseList
               \/ /\ Len(m_responseList) = CAN4VSCP_MAX_RESPONSEMSG
                  /\ m_responseList # <<>> /\ Bounded = Tail(m_responseList)
        BY DEF Bounded
      <3>4. /\ Len(m_responseList') = Len(Bounded) + 1 /\ Len(Bounded) \in Nat
            /\ m_responseList'[Len(Bounded) + 1] = Head(toDriver)
            /\ \A i \in 1..Len(Bounded) : m_responseList'[i] = Bounded[i]
        BY <3>1, <3>2, <3>3
      <3>5. FrameUnderWay(c) => FrameUnderWay(c)'
        BY <1>1, <3>1 DEF FrameUnderWay
      <3>6. Matches(c, Head(toDriver)) => ReplyListed(c)'
        <4>1. /\ Len(Bounded) + 1 \in 1..Len(m_responseList')
              /\ received'[c] + (Len(Bounded) + 1) > Len(m_responseList')
          BY <2>1, <3>1, <3>4
        <4>. QED
          BY <2>4, <3>4, <4>1 DEF ReplyListed
      <3>7. ReplyUnderWay(c) => ReplyUnderWay(c)' \/ ReplyListed(c)'
        BY <2>4, <2>5, <3>1, <3>6 DEF ReplyUnderWay
      <3>8. ASSUME ReplyListed(c) PROVE ReplyListed(c)'
        <4>1. PICK i \in 1..Len(m_responseList) :
                  Matches(c, m_responseList[i]) /\ received[c] + i > Len(m_responseList)
          BY <3>8 DEF ReplyListed
        <4>2. CASE Bounded = m_responseList
          <5>1. /\ i \in 1..Len(m_responseList') /\ m_responseList'[i] = m_responseList[i]
                /\ received'[c] + i > Len(m_responseList')
            BY <2>1, <3>1, <3>4, <4>1, <4>2
          <5>. QED
            BY <2>4, <4>1, <5>1 DEF ReplyListed
        <4>3. CASE /\ Len(m_responseList) = CAN4VSCP_MAX_RESPONSEMSG
                   /\ m_responseList # <<>> /\ Bounded = Tail(m_responseList)
          <5>1. i # 1
            BY <2>1, <3>1, <4>1, <4>3 DEF Excuse
          <5>2. /\ Len(Bounded) = Len(m_responseList) - 1
                /\ i - 1 \in 1..Len(Bounded) /\ Bounded[i - 1] = m_responseList[i]
            BY <4>1, <4>3, <5>1
          <5>3. /\ i - 1 \in 1..Len(m_responseList')
                /\ m_responseList'[i - 1] = m_responseList[i]
                /\ received'[c] + (i - 1) > Len(m_responseList')
            BY <2>1, <3>1, <3>4, <4>1, <5>2
          <5>. QED
            BY <2>4, <4>1, <5>3 DEF ReplyListed
        <4>. QED
          BY <3>3, <4>2, <4>3
      <3>. QED
        BY <2>3, <3>5, <3>7, <3>8 DEF AnswerUnderWay
    <2>. QED
      BY <2>9, <2>10, <2>11, <2>12, <2>13
  <1>. QED
    BY <1>1, <1>2, <1>4, <1>5 DEF SoleInv

LEMMA SoleStep ==
    ASSUME TypeOK, CallsHaveCodes, [Next]_vars,
           NEW c \in Callers, Callers = {c}, SoleInv(c)
    PROVE  SoleInv(c)'
  <1>1. CASE \E d \in Callers : Caller(d)
    <2>1. Caller(c)
      BY <1>1
    <2>. QED
      BY <2>1, SoleCallStep, SoleWaitStep DEF Caller
  <1>2. CASE \/ AdapterExecutes \/ AdapterRefuses \/ AdapterAcknowledges
             \/ LoseFrame \/ LoseReply \/ addToResponseQueue
    BY <1>2, SoleLineStep
  <1>3. CASE UNCHANGED vars
    BY <1>3 DEF vars, lineVars, SoleInv, OwnNumber, Waits, AnswerUnderWay, FrameUnderWay,
                ReplyUnderWay, ReplyListed, Matches
  <1>. QED
    BY <1>1, <1>2, <1>3 DEF Next

\* A thread that is alone in sending commands is told FALSE only if its frame
\* or its reply was lost or refused, is late, or was pushed out of the list;
\* for any list size, with late replies or without.
THEOREM SoleCallerSucceeds == Spec => []SoleCallerIsAnswered
  <1>. DEFINE Inv == /\ TypeOK /\ CallsHaveCodes
                     /\ \A c \in Callers : Callers = {c} => SoleInv(c)
  <1>1. Init => Inv
    BY TypeInit, SoleInit
  <1>2. Inv /\ [Next]_vars => Inv'
    BY TypeStep, SoleStep
  <1>3. Inv => SoleCallerIsAnswered
    <2>. SUFFICES ASSUME Inv, Cardinality(Callers) = 1, NEW c \in Callers,
                         pc[c] = "idle", ~ok[c]
                  PROVE  received[c] > CAN4VSCP_MAX_RESPONSEMSG
      BY DEF SoleCallerIsAnswered
    <2>1. Callers = {c}
      BY CommandChannelAssumption, FS_Singleton
    <2>2. received[c] = Excuse
      BY <2>1 DEF SoleInv
    <2>. QED
      BY <2>2, CommandChannelAssumption DEF Excuse
  <1>. HIDE DEF Inv
  <1>. QED
    BY <1>1, <1>2, <1>3, PTL DEF Spec
=============================================================================
