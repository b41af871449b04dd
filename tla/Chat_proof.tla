------------------------------ MODULE Chat_proof ------------------------------
(* Proofs about Chat, for any number of concurrent requests, conversations *)
(* and messages.                                                           *)
EXTENDS Chat, SequenceTheorems, TLAPS

-----------------------------------------------------------------------------
(* Type correctness *)

ConvType == [state : {"listed", "archived", "deleted"}, token : 0..minted]

TurnPcs == {"insert_question", "read_history", "stream", "insert_answer"}
CommitPcs == {"commit_question", "commit_answer"}

Histories == UNION {[D -> Said] : D \in SUBSET (1..drawn)}

TurnType == [pc : TurnPcs, conv : DOMAIN convs, q : 1..asked]
CommitType == [pc : CommitPcs, conv : DOMAIN convs, q : 1..asked,
               seq : 1..drawn, seen : 0..stored]
PromptType == [pc : {"connect"}, conv : DOMAIN convs, q : 1..asked,
               history : Histories]

\* What a request holds at each point of its handler.
ReqType ==
    {Idle}
    \cup [pc : {"update"}, conv : DOMAIN convs, row : ConvType,
          state : {"listed", "archived"}]
    \cup [pc : {"share"}, conv : DOMAIN convs, token : 0..minted]
    \cup TurnType \cup CommitType \cup PromptType

TypeInv ==
    /\ TypeOK
    /\ asked \in Nat /\ minted \in Nat /\ drawn \in Nat /\ stored \in Nat
    /\ DOMAIN reqs = Requests /\ \A r \in Requests : reqs[r] \in ReqType

Asking(r) == reqs[r].pc \in TurnPcs \cup CommitPcs \cup {"connect"}

\* What the program counter says of the rest.
LEMMA Pcs ==
    ASSUME TypeInv, NEW r \in Requests
    PROVE  /\ reqs[r].pc = "update" =>
                /\ reqs[r].conv \in DOMAIN convs
                /\ reqs[r].state \in {"listed", "archived"}
           /\ reqs[r].pc = "share" =>
                reqs[r].conv \in DOMAIN convs /\ reqs[r].token \in 0..minted
           /\ reqs[r].pc \in TurnPcs => reqs[r] \in TurnType
           /\ reqs[r].pc \in CommitPcs => reqs[r] \in CommitType
           /\ reqs[r].pc = "connect" => reqs[r] \in PromptType
           /\ Asking(r) => reqs[r].conv \in DOMAIN convs /\ reqs[r].q \in 1..asked
           /\ "q" \in DOMAIN reqs[r] <=> Asking(r)
<1>1. reqs[r] \in ReqType
  BY DEF TypeInv
<1>2. CASE reqs[r] = Idle
  BY <1>2 DEF Idle, TurnPcs, CommitPcs, Asking
<1>3. CASE reqs[r] \in [pc : {"update"}, conv : DOMAIN convs, row : ConvType,
                        state : {"listed", "archived"}]
  BY <1>3 DEF TurnPcs, CommitPcs, Asking
<1>4. CASE reqs[r] \in [pc : {"share"}, conv : DOMAIN convs, token : 0..minted]
  BY <1>4 DEF TurnPcs, CommitPcs, Asking
<1>5. CASE reqs[r] \in TurnType
  BY <1>5 DEF TurnPcs, CommitPcs, Asking, TurnType
<1>6. CASE reqs[r] \in CommitType
  BY <1>6 DEF TurnPcs, CommitPcs, Asking, CommitType
<1>7. CASE reqs[r] \in PromptType
  BY <1>7 DEF TurnPcs, CommitPcs, Asking, PromptType
<1> QED
  BY <1>1, <1>2, <1>3, <1>4, <1>5, <1>6, <1>7 DEF ReqType

\* A conversation, a token, a question, a number or a message more takes nothing
\* from what requests hold.
LEMMA TypesGrow ==
    ASSUME TypeInv, DOMAIN convs \subseteq DOMAIN convs',
           asked' \in Nat, minted' \in Nat, drawn' \in Nat, stored' \in Nat,
           asked <= asked', minted <= minted', drawn <= drawn', stored <= stored'
    PROVE  /\ ReqType \subseteq ReqType' /\ Said \subseteq Said'
           /\ ConvType \subseteq ConvType'
           /\ 1..asked \subseteq 1..asked' /\ 1..minted \subseteq 1..minted'
           /\ 0..minted \subseteq 0..minted' /\ 1..drawn \subseteq 1..drawn'
           /\ 0..stored \subseteq 0..stored' /\ 1..stored \subseteq 1..stored'
<1>1. /\ 1..asked \subseteq 1..asked' /\ 1..minted \subseteq 1..minted'
      /\ 0..minted \subseteq 0..minted' /\ 1..drawn \subseteq 1..drawn'
      /\ 0..stored \subseteq 0..stored' /\ 1..stored \subseteq 1..stored'
  BY DEF TypeInv
<1>2. Said \subseteq Said'
  BY <1>1 DEF Said
<1>3. ConvType \subseteq ConvType'
  BY <1>1 DEF ConvType
<1>4. Histories \subseteq Histories'
  <2> SUFFICES ASSUME NEW D \in SUBSET (1..drawn), NEW h \in [D -> Said]
               PROVE  h \in Histories'
    BY DEF Histories
  <2>1. D \in SUBSET (1..drawn') /\ h \in [D -> Said']
    BY <1>1, <1>2
  <2> QED
    BY <2>1 DEF Histories
<1>5. TurnType \subseteq TurnType' /\ CommitType \subseteq CommitType'
  BY <1>1 DEF TurnType, CommitType
<1>6. PromptType \subseteq PromptType'
  BY <1>1, <1>4 DEF PromptType
<1> QED
  BY <1>1, <1>2, <1>3, <1>5, <1>6 DEF ReqType

\* A request goes on with something well-formed.
LEMMA ReqKept ==
    ASSUME TypeInv, NEW r \in Requests, NEW q, Goto(r, q),
           ReqType \subseteq ReqType', q \in ReqType'
    PROVE  /\ DOMAIN reqs' = Requests /\ \A s \in Requests : reqs'[s] \in ReqType'
           /\ reqs'[r] = q /\ \A s \in Requests \ {r} : reqs'[s] = reqs[s]
BY DEF TypeInv, Goto

\* A conversation's row gets another state or another token.
LEMMA RowTypes ==
    ASSUME TypeInv, NEW c \in Existing, NEW row \in ConvType,
           convs' = [convs EXCEPT ![c] = row], UNCHANGED minted
    PROVE  /\ convs' \in Seq(ConvType) /\ DOMAIN convs' = DOMAIN convs
           /\ row.state # "deleted" => Existing' = Existing
           /\ row.state = "deleted" => Existing' = Existing \ {c}
<1>1. convs \in Seq(ConvType) /\ c \in 1..Len(convs)
  BY DEF TypeInv, TypeOK, ConvType, Existing, Exists
<1>2. convs' \in Seq(ConvType) /\ Len(convs') = Len(convs)
  BY <1>1
<1>3. \A d \in 1..Len(convs) : convs'[d] = IF d = c THEN row ELSE convs[d]
  BY <1>1
<1>4. DOMAIN convs = 1..Len(convs) /\ DOMAIN convs' = 1..Len(convs)
  BY <1>1, <1>2
<1> QED
  BY <1>1, <1>2, <1>3, <1>4 DEF Existing, Exists

\* A message more.
LEMMA AppearTypes ==
    ASSUME TypeInv, NEW q \in CommitType, NEW said \in Said, Exists(q.conv),
           Appear(q, said), UNCHANGED <<convs, drawn, asked>>
    PROVE  /\ stored' \in Nat /\ stored <= stored'
           /\ msgs' \subseteq [seq : 1..drawn', conv : Existing', said : Said',
                              seen : 0..stored', at : 1..stored']
<1>1. stored' = stored + 1 /\ stored \in Nat
  BY DEF Appear, TypeInv
<1>2. Existing' = Existing /\ Said' = Said
  BY DEF Existing, Exists, Said
<1>3. msgs \subseteq [seq : 1..drawn, conv : Existing, said : Said,
                     seen : 0..stored, at : 1..stored]
  BY DEF TypeInv, TypeOK
<1>4. 0..stored \subseteq 0..stored' /\ 1..stored \subseteq 1..stored'
  BY <1>1
<1>5. msgs \subseteq [seq : 1..drawn, conv : Existing, said : Said,
                     seen : 0..stored', at : 1..stored']
  BY <1>3, <1>4
<1>6. /\ q.seq \in 1..drawn /\ q.seen \in 0..stored' /\ q.conv \in Existing
      /\ stored' \in 1..stored'
  BY <1>1, <1>4 DEF CommitType, Existing
<1>7. [seq |-> q.seq, conv |-> q.conv, said |-> said, seen |-> q.seen, at |-> stored']
        \in [seq : 1..drawn, conv : Existing, said : Said,
             seen : 0..stored', at : 1..stored']
  BY <1>6
<1> QED
  BY <1>1, <1>2, <1>5, <1>7 DEF Appear

-----------------------------------------------------------------------------
(* Every step keeps the types *)

\* Rows in the order of their numbers are a history.
LEMMA HistoryTypes ==
    ASSUME TypeInv, NEW rows, rows \subseteq msgs
    PROVE  OrderByChainSeq(rows) \in Histories
<1> DEFINE D == {m.seq : m \in rows}
<1>1. D \in SUBSET (1..drawn)
  BY DEF TypeInv, TypeOK
<1>2. ASSUME NEW i \in D PROVE (CHOOSE m \in rows : m.seq = i).said \in Said
  <2>1. \E m \in rows : m.seq = i
    BY <1>2
  <2>2. (CHOOSE m \in rows : m.seq = i) \in rows
    BY <2>1
  <2> QED
    BY <2>2 DEF TypeInv, TypeOK
<1>3. OrderByChainSeq(rows) \in [D -> Said]
  BY <1>2 DEF OrderByChainSeq
<1> QED
  BY <1>1, <1>3 DEF Histories

\* Steps that only read, draw a number, or move on with what was read.
LEMMA ReadTypes ==
    ASSUME TypeInv, NEW r \in Requests,
           UpdateRead(r) \/ ShareRead(r) \/ UnshareRead(r) \/ Send(r)
           \/ Respond(r) \/ Close(r) \/ Timeout(r) \/ ReadHistory(r) \/ Abort(r)
           \/ InsertQuestion(r) \/ InsertAnswer(r)
    PROVE  TypeInv'
<1>1. /\ UNCHANGED <<convs, msgs, stored>>
      /\ asked \in Nat /\ minted \in Nat /\ drawn \in Nat /\ stored \in Nat
      /\ asked' \in {asked, asked + 1} /\ minted' \in {minted, minted + 1}
      /\ drawn' \in {drawn, drawn + 1}
      /\ UNCHANGED worked
  BY DEF TypeInv, UpdateRead, ShareRead, UnshareRead, Send, Respond, Close,
         Timeout, ReadHistory, Abort, InsertQuestion, InsertAnswer, Draw
<1>2. /\ asked' \in Nat /\ minted' \in Nat /\ drawn' \in Nat /\ stored' \in Nat
      /\ asked <= asked' /\ minted <= minted' /\ drawn <= drawn'
      /\ stored <= stored'
  BY <1>1
<1>3. /\ ReqType \subseteq ReqType' /\ Said \subseteq Said'
      /\ ConvType \subseteq ConvType' /\ 1..drawn \subseteq 1..drawn'
      /\ 1..asked \subseteq 1..asked' /\ 1..minted \subseteq 1..minted'
  BY <1>1, <1>2, TypesGrow
<1>4. Existing' = Existing
  BY <1>1 DEF Existing, Exists
<1>5. dropped' \subseteq 1..asked'
  <2>1. CASE Abort(r)
    <3>1. Owes(r) \subseteq 1..asked
      BY Pcs DEF Owes
    <3> QED
      BY <2>1, <3>1, <1>3 DEF Abort, TypeInv, TypeOK
  <2>2. CASE ~Abort(r)
    <3>1. UNCHANGED dropped
      BY <2>2 DEF UpdateRead, ShareRead, UnshareRead, Send, Respond, Close,
                  Timeout, ReadHistory, InsertQuestion, InsertAnswer, Draw
    <3> QED
      BY <3>1, <1>3 DEF TypeInv, TypeOK
  <2> QED
    BY <2>1, <2>2
<1>6. TypeOK'
  <2>1. convs' \in Seq(ConvType')
    <3>1. convs \in Seq(ConvType)
      BY DEF TypeInv, TypeOK, ConvType
    <3> QED
      BY <1>1, <1>3, <3>1
  <2>2. msgs' \subseteq [seq : 1..drawn', conv : Existing', said : Said',
                        seen : 0..stored', at : 1..stored']
    <3>1. msgs \subseteq [seq : 1..drawn, conv : Existing, said : Said,
                         seen : 0..stored, at : 1..stored]
      BY DEF TypeInv, TypeOK
    <3>2. msgs \subseteq [seq : 1..drawn', conv : Existing, said : Said',
                         seen : 0..stored, at : 1..stored]
      BY <1>3, <3>1
    <3> QED
      BY <1>1, <1>4, <3>2
  <2> QED
    BY <1>1, <1>3, <1>5, <2>1, <2>2 DEF TypeInv, TypeOK, ConvType
<1>7. \E q : Goto(r, q) /\ q \in ReqType'
  <2>1. CASE UpdateRead(r)
    <3>1. PICK c \in Existing, state \in {"listed", "archived"} :
            Goto(r, [pc |-> "update", conv |-> c, row |-> convs[c], state |-> state])
      BY <2>1 DEF UpdateRead
    <3>2. c \in DOMAIN convs /\ convs[c] \in ConvType
      <4>1. convs \in Seq(ConvType)
        BY DEF TypeInv, TypeOK, ConvType
      <4> QED
        BY <4>1 DEF Existing, Exists
    <3>3. [pc |-> "update", conv |-> c, row |-> convs[c], state |-> state] \in ReqType
      BY <3>2 DEF ReqType
    <3> QED
      BY <3>1, <3>3, <1>3
  <2>2. CASE ShareRead(r) \/ UnshareRead(r)
    <3>1. PICK c \in Existing, t \in {minted', NoToken} :
            Goto(r, [pc |-> "share", conv |-> c, token |-> t])
      BY <2>2 DEF ShareRead, UnshareRead
    <3>2. c \in DOMAIN convs' /\ t \in 0..minted'
      BY <1>1, <1>2 DEF Existing, Exists, NoToken
    <3>3. [pc |-> "share", conv |-> c, token |-> t] \in ReqType'
      BY <3>2 DEF ReqType
    <3> QED
      BY <3>1, <3>3
  <2>3. CASE Send(r)
    <3>1. PICK c \in Existing :
            Goto(r, [pc |-> "insert_question", conv |-> c, q |-> asked'])
      BY <2>3 DEF Send
    <3>2. c \in DOMAIN convs' /\ asked' \in 1..asked'
      BY <1>1, <1>2, <2>3 DEF Existing, Exists, Send
    <3>3. [pc |-> "insert_question", conv |-> c, q |-> asked'] \in TurnType'
      BY <3>2 DEF TurnType, TurnPcs
    <3> QED
      BY <3>1, <3>3 DEF ReqType
  <2>4. CASE Respond(r) \/ Close(r) \/ Timeout(r)
    <3>1. PICK pc \in TurnPcs :
            /\ Asking(r)
            /\ Goto(r, [pc |-> pc, conv |-> reqs[r].conv, q |-> reqs[r].q])
      BY <2>4 DEF Respond, Close, Timeout, TurnPcs, Asking
    <3>2. [pc |-> pc, conv |-> reqs[r].conv, q |-> reqs[r].q] \in TurnType
      BY <3>1, Pcs DEF TurnType
    <3>3. [pc |-> pc, conv |-> reqs[r].conv, q |-> reqs[r].q] \in ReqType
      BY <3>2 DEF ReqType
    <3> QED
      BY <3>1, <3>3, <1>3
  <2>5. CASE ReadHistory(r)
    <3>1. PICK heard \in {{}, In(reqs[r].conv)} :
            /\ reqs[r].pc = "read_history"
            /\ Goto(r, [pc |-> "connect", conv |-> reqs[r].conv, q |-> reqs[r].q,
                        history |-> OrderByChainSeq(heard)])
      BY <2>5 DEF ReadHistory
    <3>2. reqs[r].conv \in DOMAIN convs /\ reqs[r].q \in 1..asked
      BY <3>1, Pcs DEF TurnPcs, Asking
    <3>3. OrderByChainSeq(heard) \in Histories
      BY HistoryTypes DEF In
    <3>4. [pc |-> "connect", conv |-> reqs[r].conv, q |-> reqs[r].q,
           history |-> OrderByChainSeq(heard)] \in PromptType
      BY <3>2, <3>3 DEF PromptType
    <3>5. [pc |-> "connect", conv |-> reqs[r].conv, q |-> reqs[r].q,
           history |-> OrderByChainSeq(heard)] \in ReqType
      BY <3>4 DEF ReqType
    <3> QED
      BY <3>1, <3>5, <1>3
  <2>6. CASE Abort(r)
    BY <2>6 DEF Abort, Finish, ReqType
  <2>7. CASE InsertQuestion(r) \/ InsertAnswer(r)
    <3>1. PICK pc \in CommitPcs :
            /\ Asking(r) /\ drawn' = drawn + 1
            /\ Goto(r, [pc |-> pc, conv |-> reqs[r].conv, q |-> reqs[r].q,
                        seq |-> drawn', seen |-> stored])
      BY <2>7 DEF InsertQuestion, InsertAnswer, Draw, CommitPcs, TurnPcs, Asking
    <3>2. /\ reqs[r].conv \in DOMAIN convs' /\ reqs[r].q \in 1..asked'
          /\ drawn' \in 1..drawn' /\ stored \in 0..stored'
      BY <1>1, <1>2, <1>3, <3>1, Pcs
    <3>3. [pc |-> pc, conv |-> reqs[r].conv, q |-> reqs[r].q,
           seq |-> drawn', seen |-> stored] \in CommitType'
      BY <3>2 DEF CommitType
    <3> QED
      BY <3>1, <3>3 DEF ReqType
  <2> QED
    BY <2>1, <2>2, <2>3, <2>4, <2>5, <2>6, <2>7
<1> QED
  BY <1>1, <1>2, <1>3, <1>6, <1>7, ReqKept DEF TypeInv

\* Steps that store something.
LEMMA WriteTypes ==
    ASSUME TypeInv, NEW r \in Requests,
           Create(r) \/ Update(r) \/ Delete(r) \/ SetToken(r)
           \/ CommitQuestion(r) \/ CommitAnswer(r)
    PROVE  TypeInv'
<1>0. /\ asked \in Nat /\ minted \in Nat /\ drawn \in Nat /\ stored \in Nat
      /\ UNCHANGED <<asked, minted, drawn, dropped>>
  BY DEF TypeInv, Create, Update, Delete, SetToken, CommitQuestion, CommitAnswer
<1>1. Said' = Said /\ ConvType' = ConvType
  BY <1>0 DEF Said, ConvType
<1>2. convs \in Seq(ConvType)
  BY DEF TypeInv, TypeOK, ConvType
<1>3. CASE Create(r)
  <2> DEFINE new == [state |-> "listed", token |-> NoToken]
  <2>1. convs' = Append(convs, new) /\ UNCHANGED <<msgs, stored, reqs, worked>>
    BY <1>3 DEF Create
  <2>2. new \in ConvType
    BY <1>0 DEF ConvType, NoToken
  <2> HIDE DEF new
  <2>3. /\ convs' \in Seq(ConvType) /\ Len(convs') = Len(convs) + 1
        /\ \A c \in 1..Len(convs) : convs'[c] = convs[c]
    BY <1>2, <2>1, <2>2, AppendProperties
  <2>4. DOMAIN convs \subseteq DOMAIN convs' /\ Existing \subseteq Existing'
    BY <1>2, <2>3 DEF Existing, Exists
  <2>5. ReqType \subseteq ReqType'
    BY <1>0, <2>1, <2>4, TypesGrow
  <2>6. msgs' \subseteq [seq : 1..drawn', conv : Existing', said : Said',
                        seen : 0..stored', at : 1..stored']
    BY <1>0, <1>1, <2>1, <2>4 DEF TypeInv, TypeOK
  <2> QED
    BY <1>0, <1>1, <2>1, <2>3, <2>5, <2>6 DEF TypeInv, TypeOK, ConvType
<1>4. CASE Update(r) \/ SetToken(r)
  <2>1. PICK row \in ConvType :
          /\ reqs[r].conv \in Existing /\ row.state # "deleted"
          /\ convs' = [convs EXCEPT ![reqs[r].conv] = row]
          /\ worked' \subseteq worked \cup ({row.token} \ {NoToken})
    <3>1. CASE Update(r)
      <4>1. /\ reqs[r].pc = "update" /\ reqs[r].conv \in Existing
            /\ reqs[r].state \in {"listed", "archived"}
        BY <3>1, Pcs DEF Update, Existing, Exists
      <4>2. convs[reqs[r].conv] \in ConvType
        BY <4>1, <1>2 DEF Existing, Exists
      <4> DEFINE row == [convs[reqs[r].conv] EXCEPT !.state = reqs[r].state]
      <4>3. row \in ConvType /\ row.state # "deleted"
        BY <4>1, <4>2 DEF ConvType
      <4>4. NoToken \notin worked
        BY DEF TypeInv, TypeOK, NoToken
      <4>5. /\ convs' = [convs EXCEPT ![reqs[r].conv] = row]
            /\ worked' \subseteq worked \cup ({row.token} \ {NoToken})
        BY <3>1, <4>4 DEF Update
      <4> QED
        BY <4>1, <4>3, <4>5
    <3>2. CASE SetToken(r)
      <4>1. /\ reqs[r].pc = "share" /\ reqs[r].conv \in Existing
            /\ reqs[r].token \in 0..minted
        BY <3>2, Pcs DEF SetToken, Existing, Exists
      <4>2. /\ convs[reqs[r].conv] \in ConvType
            /\ convs[reqs[r].conv].state # "deleted"
        BY <4>1, <1>2 DEF Existing, Exists
      <4> DEFINE row == [convs[reqs[r].conv] EXCEPT !.token = reqs[r].token]
      <4>3. row \in ConvType /\ row.state # "deleted" /\ row.token = reqs[r].token
        BY <4>1, <4>2 DEF ConvType
      <4>4. NoToken \notin worked
        BY DEF TypeInv, TypeOK, NoToken
      <4>5. /\ convs' = [convs EXCEPT ![reqs[r].conv] = row]
            /\ worked' \subseteq worked \cup ({row.token} \ {NoToken})
        BY <3>2, <4>3, <4>4 DEF SetToken
      <4> QED
        BY <4>1, <4>3, <4>5
    <3> QED
      BY <1>4, <3>1, <3>2
  <2>2. Finish(r) /\ UNCHANGED <<msgs, stored>>
    BY <1>4 DEF Update, SetToken
  <2>3. convs' \in Seq(ConvType) /\ DOMAIN convs' = DOMAIN convs /\ Existing' = Existing
    BY <1>0, <2>1, RowTypes
  <2>4. worked' \subseteq 1..minted
    BY <1>0, <2>1 DEF TypeInv, TypeOK, ConvType, NoToken
  <2>5. ReqType \subseteq ReqType'
    BY <1>0, <2>2, <2>3, TypesGrow
  <2>6. DOMAIN reqs' = Requests /\ \A s \in Requests : reqs'[s] \in ReqType'
    BY <2>2, <2>5, ReqKept DEF Finish, ReqType
  <2> QED
    BY <1>0, <1>1, <2>2, <2>3, <2>4, <2>6 DEF TypeInv, TypeOK, ConvType
<1>5. CASE Delete(r)
  <2> DEFINE gone == [state |-> "deleted", token |-> NoToken]
  <2>1. PICK c \in Existing : convs' = [convs EXCEPT ![c] = gone] /\ msgs' = msgs \ In(c)
    BY <1>5 DEF Delete
  <2>2. UNCHANGED <<stored, reqs, worked>>
    BY <1>5 DEF Delete
  <2>3. gone \in ConvType /\ gone.state = "deleted"
    BY <1>0 DEF ConvType, NoToken
  <2> HIDE DEF gone
  <2>4. /\ convs' \in Seq(ConvType) /\ DOMAIN convs' = DOMAIN convs
        /\ Existing' = Existing \ {c}
    BY <1>0, <2>1, <2>3, RowTypes
  <2>5. ReqType \subseteq ReqType'
    BY <1>0, <2>2, <2>4, TypesGrow
  <2>6. msgs' \subseteq [seq : 1..drawn', conv : Existing', said : Said',
                        seen : 0..stored', at : 1..stored']
    <3>1. SUFFICES ASSUME NEW m \in msgs, m \notin In(c)
                   PROVE  m \in [seq : 1..drawn, conv : Existing \ {c}, said : Said,
                                seen : 0..stored, at : 1..stored]
      BY <1>0, <1>1, <2>1, <2>2, <2>4
    <3>2. m \in [seq : 1..drawn, conv : Existing, said : Said,
               seen : 0..stored, at : 1..stored] /\ m.conv # c
      BY <3>1 DEF TypeInv, TypeOK, In
    <3> QED
      BY <3>2
  <2> QED
    BY <1>0, <1>1, <2>2, <2>4, <2>5, <2>6 DEF TypeInv, TypeOK, ConvType
<1>6. CASE CommitQuestion(r)
  <2>1. /\ Exists(reqs[r].conv) /\ reqs[r].pc = "commit_question"
        /\ reqs[r] \in CommitType
    BY <1>6, Pcs DEF CommitQuestion, CommitPcs
  <2>2. Question(reqs[r].q) \in Said
    BY <2>1 DEF Question, Said, CommitType
  <2>3. /\ Appear(reqs[r], Question(reqs[r].q))
        /\ Goto(r, [pc |-> "read_history", conv |-> reqs[r].conv, q |-> reqs[r].q])
        /\ UNCHANGED <<convs, worked>>
    BY <1>6 DEF CommitQuestion
  <2>4. /\ stored' \in Nat /\ stored <= stored'
        /\ msgs' \subseteq [seq : 1..drawn', conv : Existing', said : Said',
                           seen : 0..stored', at : 1..stored']
    BY <1>0, <2>1, <2>2, <2>3, AppearTypes
  <2>5. ReqType \subseteq ReqType'
    BY <1>0, <2>3, <2>4, TypesGrow
  <2>6. [pc |-> "read_history", conv |-> reqs[r].conv, q |-> reqs[r].q] \in TurnType
    BY <2>1 DEF TurnPcs, TurnType, CommitType
  <2>7. [pc |-> "read_history", conv |-> reqs[r].conv, q |-> reqs[r].q] \in ReqType'
    BY <2>5, <2>6 DEF ReqType
  <2>8. DOMAIN reqs' = Requests /\ \A s \in Requests : reqs'[s] \in ReqType'
    BY <2>3, <2>5, <2>7, ReqKept
  <2> QED
    BY <1>0, <1>1, <2>3, <2>4, <2>8 DEF TypeInv, TypeOK, ConvType
<1>7. CASE CommitAnswer(r)
  <2>1. reqs[r].pc = "commit_answer" /\ reqs[r] \in CommitType
    BY <1>7, Pcs DEF CommitAnswer, CommitPcs
  <2>2. Answer(reqs[r].q) \in Said
    BY <2>1 DEF Answer, Said, CommitType
  <2>3. Finish(r) /\ UNCHANGED <<convs, worked>>
    BY <1>7 DEF CommitAnswer
  <2>4. /\ stored' \in Nat /\ stored <= stored'
        /\ msgs' \subseteq [seq : 1..drawn', conv : Existing', said : Said',
                           seen : 0..stored', at : 1..stored']
    <3>1. CASE Exists(reqs[r].conv)
      <4>1. Appear(reqs[r], Answer(reqs[r].q))
        BY <1>7, <3>1 DEF CommitAnswer
      <4> QED
        BY <1>0, <2>1, <2>2, <2>3, <3>1, <4>1, AppearTypes
    <3>2. CASE ~Exists(reqs[r].conv)
      <4>1. UNCHANGED <<msgs, stored>> /\ Existing' = Existing
        BY <1>7, <2>3, <3>2 DEF CommitAnswer, Existing, Exists
      <4> QED
        BY <1>0, <1>1, <4>1 DEF TypeInv, TypeOK
    <3> QED
      BY <3>1, <3>2
  <2>5. ReqType \subseteq ReqType'
    BY <1>0, <2>3, <2>4, TypesGrow
  <2>6. DOMAIN reqs' = Requests /\ \A s \in Requests : reqs'[s] \in ReqType'
    BY <2>3, <2>5, ReqKept DEF Finish, ReqType
  <2> QED
    BY <1>0, <1>1, <2>3, <2>4, <2>6 DEF TypeInv, TypeOK, ConvType
<1> QED
  BY <1>3, <1>4, <1>5, <1>6, <1>7

\* Conversations, messages and requests keep their shape.
THEOREM TypesKept == Spec => []TypeInv
<1>1. Init => TypeInv
  <2> SUFFICES ASSUME Init PROVE TypeInv
    OBVIOUS
  <2>1. convs = <<>> /\ msgs = {} /\ asked = 0 /\ minted = 0 /\ drawn = 0
        /\ stored = 0
        /\ worked = {} /\ dropped = {} /\ reqs = [r \in Requests |-> Idle]
    BY DEF Init
  <2>2. TypeOK
    BY <2>1 DEF TypeOK
  <2> QED
    BY <2>1, <2>2 DEF TypeInv, ReqType
<1>2. TypeInv /\ [Next]_vars => TypeInv'
  <2>1. ASSUME TypeInv, Next PROVE TypeInv'
    BY <2>1, ReadTypes, WriteTypes DEF Next, Handler
  <2>2. ASSUME TypeInv, UNCHANGED vars PROVE TypeInv'
    <3>1. Existing' = Existing /\ Said' = Said /\ ConvType' = ConvType
      BY <2>2 DEF vars, Existing, Exists, Said, ConvType
    <3>2. ReqType' = ReqType
      BY <2>2, <3>1 DEF vars, ReqType, TurnType, CommitType, PromptType, Histories
    <3> QED
      BY <2>2, <3>1, <3>2 DEF vars, TypeInv, TypeOK
  <2> QED
    BY <2>1, <2>2
<1> QED
  BY <1>1, <1>2, PTL DEF Spec

\* A message belongs to a conversation that exists, and a token or question
\* that anything mentions was drawn, whatever requests run side by side.
THEOREM TypeCorrect == Spec => []TypeOK
<1>1. TypeInv => TypeOK
  BY DEF TypeInv
<1> QED
  BY <1>1, TypesKept, PTL

-----------------------------------------------------------------------------
(* Links *)

\* A token that a request is about to store is new, and its own.
TokenInv ==
    \A r \in Requests :
      reqs[r].pc = "share" /\ reqs[r].token # NoToken =>
        /\ reqs[r].token \notin worked
        /\ \A s \in Requests \ {r} :
             reqs[s].pc = "share" => reqs[s].token # reqs[r].token

\* A step in which no request takes up a token.
LEMMA TokenSame ==
    ASSUME TypeInv, TokenInv, NEW r \in Requests, NEW q, Goto(r, q),
           q.pc # "share", UNCHANGED worked
    PROVE  TokenInv'
<1>1. reqs'[r] = q /\ \A s \in Requests \ {r} : reqs'[s] = reqs[s]
  BY DEF Goto, TypeInv
<1> QED
  BY <1>1 DEF TokenInv

\* Tokens are drawn and stored once.
LEMMA TokenStep ==
    ASSUME TypeInv, TokenInv, Next
    PROVE  TokenInv' /\ \A t \in worked : ~Works(t) => ~Works(t)'
<1>1. PICK r \in Requests :
        \/ Create(r) \/ UpdateRead(r) \/ Delete(r) \/ ShareRead(r)
        \/ UnshareRead(r) \/ Send(r) \/ Respond(r) \/ Close(r) \/ Handler(r)
        \/ Abort(r)
  BY DEF Next
<1>2. convs \in Seq(ConvType) /\ NoToken \notin worked
  BY DEF TypeInv, TypeOK, ConvType, NoToken
<1>3. CASE Create(r)
  <2> DEFINE new == [state |-> "listed", token |-> NoToken]
  <2>1. convs' = Append(convs, new) /\ UNCHANGED <<reqs, worked>>
    BY <1>3 DEF Create
  <2>2. new \in ConvType /\ new.token = NoToken
    BY DEF ConvType, NoToken, TypeInv
  <2> HIDE DEF new
  <2>3. /\ Len(convs') = Len(convs) + 1 /\ convs' \in Seq(ConvType)
        /\ \A c \in 1..Len(convs) : convs'[c] = convs[c]
        /\ convs'[Len(convs) + 1] = new
    BY <1>2, <2>1, <2>2, AppendProperties
  <2>4. \A t \in worked : Works(t)' => Works(t)
    BY <1>2, <2>2, <2>3 DEF Works, Exists
  <2> QED
    BY <2>1, <2>4 DEF TokenInv
<1>4. CASE Delete(r)
  <2>1. PICK c \in Existing :
          convs' = [convs EXCEPT ![c] = [state |-> "deleted", token |-> NoToken]]
    BY <1>4 DEF Delete
  <2>2. UNCHANGED <<reqs, worked>>
    BY <1>4 DEF Delete
  <2>3. \A t \in worked : Works(t)' => Works(t)
    BY <1>2, <2>1 DEF Works, Exists, Existing
  <2> QED
    BY <2>2, <2>3 DEF TokenInv
<1>5. CASE ShareRead(r)
  <2>1. PICK c \in Existing : Goto(r, [pc |-> "share", conv |-> c, token |-> minted'])
    BY <1>5 DEF ShareRead
  <2>2. minted' = minted + 1 /\ minted \in Nat /\ UNCHANGED <<convs, worked>>
    BY <1>5 DEF ShareRead, TypeInv
  <2>3. /\ reqs'[r] = [pc |-> "share", conv |-> c, token |-> minted']
        /\ \A s \in Requests \ {r} : reqs'[s] = reqs[s]
    BY <2>1 DEF Goto, TypeInv
  <2>4. \A s \in Requests : reqs[s].pc = "share" => reqs[s].token \in 0..minted
    BY Pcs
  <2>5. minted' \notin worked
    BY <2>2 DEF TypeInv, TypeOK
  <2>6. TokenInv'
    <3> SUFFICES ASSUME NEW s \in Requests, reqs'[s].pc = "share",
                        reqs'[s].token # NoToken
                 PROVE  /\ reqs'[s].token \notin worked'
                        /\ \A u \in Requests \ {s} : reqs'[u].pc = "share"
                             => reqs'[u].token # reqs'[s].token
      BY DEF TokenInv
    <3>1. CASE s = r
      BY <2>2, <2>3, <2>4, <2>5, <3>1
    <3>2. CASE s # r
      <4>1. reqs'[s] = reqs[s] /\ reqs[s].token # minted'
        BY <2>2, <2>3, <2>4, <3>2
      <4> QED
        BY <2>2, <2>3, <4>1 DEF TokenInv
    <3> QED
      BY <3>1, <3>2
  <2> QED
    BY <2>2, <2>6 DEF Works, Exists
<1>6. CASE UnshareRead(r)
  <2>1. PICK c \in Existing : Goto(r, [pc |-> "share", conv |-> c, token |-> NoToken])
    BY <1>6 DEF UnshareRead
  <2>2. UNCHANGED <<convs, worked>>
    BY <1>6 DEF UnshareRead
  <2>3. /\ reqs'[r] = [pc |-> "share", conv |-> c, token |-> NoToken]
        /\ \A s \in Requests \ {r} : reqs'[s] = reqs[s]
    BY <2>1 DEF Goto, TypeInv
  <2>4. TokenInv'
    BY <2>2, <2>3 DEF TokenInv
  <2> QED
    BY <2>2, <2>4 DEF Works, Exists
<1>7. CASE Update(r)
  <2>1. /\ Goto(r, Idle) /\ UNCHANGED worked
        /\ reqs[r].conv \in DOMAIN convs /\ Exists(reqs[r].conv)
        /\ convs' = [convs EXCEPT ![reqs[r].conv].state = reqs[r].state]
    BY <1>7 DEF Update, Finish, Exists
  <2>2. /\ DOMAIN convs' = DOMAIN convs
        /\ \A d \in DOMAIN convs : convs'[d].token = convs[d].token
        /\ \A d \in DOMAIN convs \ {reqs[r].conv} : convs'[d] = convs[d]
    <3>1. \A d \in DOMAIN convs : convs[d] \in ConvType
      BY <1>2
    <3> QED
      BY <2>1, <3>1 DEF ConvType
  <2>3. \A t \in worked : Works(t)' => Works(t)
    BY <2>1, <2>2 DEF Works, Exists
  <2>4. TokenInv'
    BY <2>1, TokenSame DEF Idle
  <2> QED
    BY <2>3, <2>4
<1>8. CASE SetToken(r)
  <2>1. /\ Goto(r, Idle) /\ reqs[r].pc = "share"
        /\ reqs[r].conv \in DOMAIN convs /\ Exists(reqs[r].conv)
        /\ convs' = [convs EXCEPT ![reqs[r].conv].token = reqs[r].token]
        /\ worked' = worked \cup ({reqs[r].token} \ {NoToken})
    BY <1>8 DEF SetToken, Finish, Exists
  <2>2. /\ DOMAIN convs' = DOMAIN convs
        /\ convs'[reqs[r].conv].token = reqs[r].token
        /\ \A d \in DOMAIN convs \ {reqs[r].conv} : convs'[d] = convs[d]
    <3>1. \A d \in DOMAIN convs : convs[d] \in ConvType
      BY <1>2
    <3> QED
      BY <2>1, <3>1 DEF ConvType
  <2>3. \A t \in worked : reqs[r].token # t
    BY <1>2, <2>1 DEF TokenInv
  <2>4. \A t \in worked : Works(t)' => Works(t)
    BY <2>1, <2>2, <2>3 DEF Works, Exists
  <2>5. reqs'[r] = Idle /\ \A s \in Requests \ {r} : reqs'[s] = reqs[s]
    BY <2>1 DEF Goto, TypeInv
  <2>6. TokenInv'
    <3> SUFFICES ASSUME NEW s \in Requests, reqs'[s].pc = "share",
                        reqs'[s].token # NoToken
                 PROVE  /\ reqs'[s].token \notin worked'
                        /\ \A u \in Requests \ {s} : reqs'[u].pc = "share"
                             => reqs'[u].token # reqs'[s].token
      BY DEF TokenInv
    <3>1. s # r /\ reqs'[s] = reqs[s]
      BY <2>5 DEF Idle
    <3>2. reqs[s].token \notin worked /\ reqs[s].token # reqs[r].token
      BY <2>1, <3>1 DEF TokenInv
    <3> QED
      BY <2>1, <2>5, <3>1, <3>2 DEF TokenInv, Idle
  <2> QED
    BY <2>4, <2>6
<1>9. CASE UpdateRead(r) \/ Send(r) \/ Respond(r) \/ Close(r) \/ Timeout(r)
           \/ ReadHistory(r) \/ InsertQuestion(r) \/ InsertAnswer(r)
           \/ CommitQuestion(r) \/ CommitAnswer(r) \/ Abort(r)
  <2>1. UNCHANGED <<convs, worked>>
    BY <1>9 DEF UpdateRead, Send, Respond, Close, Timeout, ReadHistory,
                InsertQuestion, InsertAnswer, Draw, CommitQuestion,
                CommitAnswer, Abort
  <2>2. \E q : Goto(r, q) /\ q.pc # "share"
    <3>1. CASE UpdateRead(r)
      BY <3>1 DEF UpdateRead
    <3>2. CASE Send(r)
      BY <3>2 DEF Send
    <3>3. CASE Respond(r) \/ Close(r) \/ Timeout(r)
      BY <3>3 DEF Respond, Close, Timeout
    <3>4. CASE ReadHistory(r)
      BY <3>4 DEF ReadHistory
    <3>5. CASE InsertQuestion(r) \/ InsertAnswer(r)
      <4>1. PICK pc \in CommitPcs :
              Goto(r, [pc |-> pc, conv |-> reqs[r].conv, q |-> reqs[r].q,
                       seq |-> drawn', seen |-> stored])
        BY <3>5 DEF InsertQuestion, InsertAnswer, Draw, CommitPcs
      <4> QED
        BY <4>1 DEF CommitPcs
    <3>6. CASE CommitQuestion(r)
      BY <3>6 DEF CommitQuestion
    <3>7. CASE CommitAnswer(r) \/ Abort(r)
      BY <3>7 DEF CommitAnswer, Abort, Finish, Idle
    <3> QED
      BY <1>9, <3>1, <3>2, <3>3, <3>4, <3>5, <3>6, <3>7
  <2>3. TokenInv'
    BY <2>1, <2>2, TokenSame
  <2> QED
    BY <2>1, <2>3 DEF Works, Exists
<1> QED
  BY <1>1, <1>3, <1>4, <1>5, <1>6, <1>7, <1>8, <1>9 DEF Handler

\* A link that was withdrawn or replaced, or whose conversation is gone, never
\* works again, although requests that had read the row before write to it later.
THEOREM DeadTokens == Spec => DeadTokenStaysDead
<1>1. Init => TokenInv
  BY DEF Init, TokenInv, Idle
<1>2. TypeInv /\ TokenInv /\ [Next]_vars => TokenInv'
  <2>1. ASSUME TokenInv, UNCHANGED vars PROVE TokenInv'
    BY <2>1 DEF vars, TokenInv
  <2> QED
    BY <2>1, TokenStep
<1>3. TypeInv /\ TokenInv /\ [Next]_vars
        => [\A t \in worked : ~Works(t) => ~Works(t)']_vars
  BY TokenStep
<1> QED
  BY <1>1, <1>2, <1>3, TypesKept, PTL DEF Spec, DeadTokenStaysDead

-----------------------------------------------------------------------------
(* Prompts *)

Committing == {r \in Requests : reqs[r].pc \in CommitPcs}

\* A number is drawn once, and whatever is visible has a lower one.
NumberInv ==
    /\ \A m, n \in msgs : m.seq = n.seq => m = n
    /\ \A m, n \in msgs : m.at <= n.seen => m.seq < n.seq
    /\ \A r \in Committing : \A m \in msgs :
         m.seq # reqs[r].seq /\ (m.at <= reqs[r].seen => m.seq < reqs[r].seq)
    /\ \A r, s \in Committing : reqs[r].seq = reqs[s].seq => r = s

\* All that is said in messages and in prompts.
Heard(r) == IF reqs[r].pc = "connect"
            THEN {reqs[r].history[i] : i \in DOMAIN reqs[r].history} ELSE {}
Uttered == {m.said : m \in msgs} \cup UNION {Heard(r) : r \in Requests}

Unasked(r) == reqs[r].pc \in {"insert_question", "commit_question"}

\* Nothing is said twice: a question is one request's, and neither it nor its
\* answer is anywhere until that request stores it.
SaidInv ==
    /\ \A r, s \in Requests :
         Asking(r) /\ Asking(s) /\ reqs[r].q = reqs[s].q => r = s
    /\ \A m, n \in msgs : m.said = n.said => m = n
    /\ \A r \in Requests : Unasked(r) => Question(reqs[r].q) \notin Uttered
    /\ \A r \in Requests : Asking(r) => Answer(reqs[r].q) \notin Uttered

PromptInv == NumberInv /\ SaidInv /\ PromptIsComplete /\ TurnsInOrder

\* Goto, for one who reads the state of any request afterwards.
LEMMA GotoIs ==
    ASSUME TypeInv, NEW r \in Requests, NEW q, Goto(r, q)
    PROVE  reqs'[r] = q /\ \A s \in Requests \ {r} : reqs'[s] = reqs[s]
BY DEF Goto, TypeInv

\* The numbers stay in order when none is drawn and no message is added.
LEMMA NumberSame ==
    ASSUME NumberInv, msgs' \subseteq msgs,
           \A r \in Requests : reqs'[r].pc \in CommitPcs => reqs'[r] = reqs[r]
    PROVE  NumberInv'
<1>1. \A r \in Committing' : r \in Committing /\ reqs'[r] = reqs[r]
  BY DEF Committing
<1> QED
  BY <1>1 DEF NumberInv

\* Nothing is said twice when nothing is said or begun.
LEMMA SaidSame ==
    ASSUME SaidInv, msgs' \subseteq msgs, Uttered' \subseteq Uttered,
           \A r \in Requests : Asking(r)' => Asking(r) /\ reqs'[r].q = reqs[r].q,
           \A r \in Requests : Unasked(r)' => Unasked(r)
    PROVE  SaidInv'
<1>1. \A r \in Requests : Unasked(r)' => Asking(r)'
  BY DEF Unasked, Asking, TurnPcs, CommitPcs
<1> QED
  BY <1>1 DEF SaidInv

\* A prompt stays what it is when no message is added.
LEMMA PromptSame ==
    ASSUME PromptIsComplete, TurnsInOrder, msgs' \subseteq msgs,
           \A r \in Requests : reqs'[r].pc = "connect" => reqs'[r] = reqs[r]
    PROVE  PromptIsComplete' /\ TurnsInOrder'
<1>1. \A r \in Prompting' : r \in Prompting /\ reqs'[r] = reqs[r]
  BY DEF Prompting
<1>2. \A c : In(c)' \subseteq In(c)
  BY DEF In
<1>3. PromptIsComplete'
  BY <1>1, <1>2 DEF PromptIsComplete
<1>4. TurnsInOrder'
  BY <1>1, <1>2 DEF TurnsInOrder
<1> QED
  BY <1>3, <1>4

\* No prompt, no message: nothing more has been said.
LEMMA UtteredSame ==
    ASSUME msgs' \subseteq msgs,
           \A r \in Requests : reqs'[r].pc = "connect" => reqs'[r] = reqs[r]
    PROVE  Uttered' \subseteq Uttered
<1>1. \A r \in Requests : Heard(r)' \subseteq Heard(r)
  BY DEF Heard
<1> QED
  BY <1>1 DEF Uttered

\* A request moves on, or ends, without drawing, storing or reading a message.
LEMMA MoveKeeps ==
    ASSUME TypeInv, PromptInv, NEW r \in Requests, NEW q, Goto(r, q),
           q.pc \notin CommitPcs \cup {"connect", "insert_question"},
           q.pc \in TurnPcs => Asking(r) /\ q.q = reqs[r].q,
           msgs' \subseteq msgs
    PROVE  PromptInv'
<1>1. reqs'[r] = q /\ \A s \in Requests \ {r} : reqs'[s] = reqs[s]
  BY GotoIs
<1>2. \A s \in Requests : reqs'[s].pc \in CommitPcs \cup {"connect"}
                            => reqs'[s] = reqs[s]
  BY <1>1
<1>3. \A s \in Requests : Asking(s)' => Asking(s) /\ reqs'[s].q = reqs[s].q
  BY <1>1 DEF Asking
<1>4. \A s \in Requests : Unasked(s)' => Unasked(s)
  BY <1>1 DEF Unasked, CommitPcs
<1> QED
  BY <1>2, <1>3, <1>4, NumberSame, UtteredSame, SaidSame, PromptSame DEF PromptInv

\* A new question.
LEMMA SendKeeps ==
    ASSUME TypeInv, PromptInv, NEW r \in Requests, Send(r)
    PROVE  PromptInv'
<1>1. PICK c \in Existing :
        Goto(r, [pc |-> "insert_question", conv |-> c, q |-> asked'])
  BY DEF Send
<1>2. asked' = asked + 1 /\ asked \in Nat /\ UNCHANGED msgs
  BY DEF Send, TypeInv
<1>3. /\ reqs'[r] = [pc |-> "insert_question", conv |-> c, q |-> asked']
      /\ \A s \in Requests \ {r} : reqs'[s] = reqs[s]
  BY <1>1, GotoIs
<1>4. \A s \in Requests : Asking(s) => reqs[s].q \in 1..asked
  BY Pcs
<1>5. \A s \in Requests : reqs'[s].pc \in CommitPcs \cup {"connect"}
                            => reqs'[s] = reqs[s]
  BY <1>3 DEF CommitPcs
<1>6. Uttered' \subseteq Uttered
  BY <1>2, <1>5, UtteredSame
<1>7. \A u \in Uttered : u \in Said
  <2>1. \A m \in msgs : m.said \in Said
    BY DEF TypeInv, TypeOK
  <2>2. ASSUME NEW s \in Requests, NEW u \in Heard(s) PROVE u \in Said
    <3>1. reqs[s].pc = "connect" /\ reqs[s] \in PromptType
      BY <2>2, Pcs DEF Heard
    <3>2. PICK i \in DOMAIN reqs[s].history : u = reqs[s].history[i]
      BY <2>2, <3>1 DEF Heard
    <3>3. PICK D \in SUBSET (1..drawn) : reqs[s].history \in [D -> Said]
      BY <3>1 DEF PromptType, Histories
    <3> QED
      BY <3>2, <3>3
  <2> QED
    BY <2>1, <2>2 DEF Uttered
<1>8. Question(asked') \notin Uttered /\ Answer(asked') \notin Uttered
  BY <1>2, <1>7 DEF Question, Answer, Said
<1>9. \A s \in Requests \ {r} : /\ Asking(s)' => Asking(s) /\ reqs'[s].q = reqs[s].q
                                /\ Unasked(s)' => Unasked(s) /\ Asking(s)
                                /\ Asking(s)' => reqs'[s].q # asked'
  BY <1>2, <1>3, <1>4 DEF Asking, Unasked, TurnPcs, CommitPcs
<1>10. reqs'[r].q = asked'
  BY <1>3
<1>11. \A s, u \in Requests : Asking(s)' /\ Asking(u)' /\ reqs'[s].q = reqs'[u].q => s = u
  BY <1>9, <1>10 DEF PromptInv, SaidInv
<1>12. \A m, n \in msgs' : m.said = n.said => m = n
  BY <1>2 DEF PromptInv, SaidInv
<1>13. \A s \in Requests : Unasked(s)' => Question(reqs'[s].q) \notin Uttered'
  <2>1. \A s \in Requests \ {r} : Unasked(s)' => Question(reqs[s].q) \notin Uttered'
    BY <1>6, <1>9 DEF PromptInv, SaidInv
  <2> QED
    BY <1>3, <1>6, <1>8, <1>10, <2>1
<1>14. \A s \in Requests : Asking(s)' => Answer(reqs'[s].q) \notin Uttered'
  <2>1. \A s \in Requests \ {r} : Asking(s)' => Answer(reqs[s].q) \notin Uttered'
    BY <1>6, <1>9 DEF PromptInv, SaidInv
  <2> QED
    BY <1>3, <1>6, <1>8, <1>10, <2>1
<1>15. SaidInv'
  BY <1>11, <1>12, <1>13, <1>14 DEF SaidInv
<1> QED
  BY <1>2, <1>5, <1>15, NumberSame, PromptSame DEF PromptInv

\* A number is drawn: above all others.
LEMMA DrawKeeps ==
    ASSUME TypeInv, PromptInv, NEW r \in Requests,
           InsertQuestion(r) \/ InsertAnswer(r)
    PROVE  PromptInv'
<1>1. PICK pc \in CommitPcs :
        /\ reqs[r].pc \in TurnPcs
        /\ pc = "commit_question" => reqs[r].pc = "insert_question"
        /\ Goto(r, [pc |-> pc, conv |-> reqs[r].conv, q |-> reqs[r].q,
                    seq |-> drawn', seen |-> stored])
  BY DEF InsertQuestion, InsertAnswer, Draw, CommitPcs, TurnPcs
<1>2. drawn' = drawn + 1 /\ drawn \in Nat /\ stored \in Nat /\ UNCHANGED msgs
  BY DEF InsertQuestion, InsertAnswer, Draw, TypeInv
<1>3. /\ reqs'[r] = [pc |-> pc, conv |-> reqs[r].conv, q |-> reqs[r].q,
                    seq |-> drawn', seen |-> stored]
      /\ \A s \in Requests \ {r} : reqs'[s] = reqs[s]
  BY <1>1, GotoIs
<1>4. \A m \in msgs : m.seq \in 1..drawn
  BY DEF TypeInv, TypeOK
<1>5. \A s \in Committing : reqs[s].seq \in 1..drawn
  BY Pcs DEF Committing, CommitType
<1>6. \A s \in Committing' : s = r \/ (s # r /\ s \in Committing /\ reqs'[s] = reqs[s])
  BY <1>3 DEF Committing
<1>7. reqs'[r].seq = drawn'
  BY <1>3
<1>8. NumberInv'
  <2>1. /\ \A m, n \in msgs' : m.seq = n.seq => m = n
        /\ \A m, n \in msgs' : m.at <= n.seen => m.seq < n.seq
    BY <1>2 DEF PromptInv, NumberInv
  <2>2. ASSUME NEW s \in Committing', NEW m \in msgs'
        PROVE  /\ m.seq # reqs'[s].seq
               /\ m.at <= reqs'[s].seen => m.seq < reqs'[s].seq
    <3>1. CASE s = r
      BY <1>2, <1>4, <1>7, <3>1
    <3>2. CASE s # r
      BY <1>2, <1>6, <3>2 DEF PromptInv, NumberInv
    <3> QED
      BY <3>1, <3>2
  <2>3. \A s, u \in Committing' : reqs'[s].seq = reqs'[u].seq => s = u
    BY <1>2, <1>5, <1>6, <1>7 DEF PromptInv, NumberInv
  <2> QED
    <3>1. \A s \in Committing' : \A m \in msgs' :
            m.seq # reqs'[s].seq /\ (m.at <= reqs'[s].seen => m.seq < reqs'[s].seq)
      BY <2>2
    <3> QED
      BY <2>1, <2>3, <3>1 DEF NumberInv
<1>9. \A s \in Requests : reqs'[s].pc = "connect" => reqs'[s] = reqs[s]
  BY <1>1, <1>3 DEF CommitPcs
<1>10. \A s \in Requests : Asking(s)' => Asking(s) /\ reqs'[s].q = reqs[s].q
  BY <1>1, <1>3 DEF Asking
<1>11. \A s \in Requests : Unasked(s)' => Unasked(s)
  BY <1>1, <1>3 DEF Unasked, CommitPcs
<1> QED
  BY <1>2, <1>8, <1>9, <1>10, <1>11, UtteredSame, SaidSame, PromptSame DEF PromptInv

\* What a history has at each number.
LEMMA HistoryIs ==
    ASSUME NumberInv, NEW rows, rows \subseteq msgs
    PROVE  /\ DOMAIN OrderByChainSeq(rows) = {m.seq : m \in rows}
           /\ \A m \in rows : OrderByChainSeq(rows)[m.seq] = m.said
<1>1. ASSUME NEW m \in rows PROVE OrderByChainSeq(rows)[m.seq] = m.said
  <2> DEFINE k == CHOOSE n \in rows : n.seq = m.seq
  <2>1. k \in rows /\ k.seq = m.seq
    OBVIOUS
  <2>2. k = m
    BY <2>1 DEF NumberInv
  <2> QED
    BY <2>2 DEF OrderByChainSeq
<1> QED
  BY <1>1 DEF OrderByChainSeq

\* The prompt of a request that has just read the messages.
LEMMA ReadKeeps ==
    ASSUME TypeInv, PromptInv, NEW r \in Requests, ReadHistory(r)
    PROVE  PromptInv'
<1>1. PICK heard \in {{}, In(reqs[r].conv)} :
        /\ reqs[r].pc = "read_history"
        /\ Goto(r, [pc |-> "connect", conv |-> reqs[r].conv, q |-> reqs[r].q,
                    history |-> OrderByChainSeq(heard)])
  BY DEF ReadHistory
<1> DEFINE h == OrderByChainSeq(heard)
<1>2. /\ reqs'[r] = [pc |-> "connect", conv |-> reqs[r].conv, q |-> reqs[r].q,
                    history |-> h]
      /\ \A s \in Requests \ {r} : reqs'[s] = reqs[s]
  BY <1>1, GotoIs
<1>3. UNCHANGED msgs
  BY DEF ReadHistory
<1>4. heard \subseteq msgs
  BY <1>1 DEF In
<1>5. DOMAIN h = {m.seq : m \in heard} /\ \A m \in heard : h[m.seq] = m.said
  BY <1>4, HistoryIs DEF PromptInv
<1>6. reqs'[r].history = h /\ reqs'[r].conv = reqs[r].conv
  BY <1>2
<1> HIDE DEF h
<1>7. r \in Prompting' => heard = In(reqs[r].conv)
  <2>1. heard = {} => h = <<>>
    BY <1>1 DEF h, OrderByChainSeq
  <2> QED
    BY <1>1, <1>6, <2>1 DEF Prompting
<1>8. \A s \in Requests \ {r} : s \in Prompting' => s \in Prompting /\ reqs'[s] = reqs[s]
  BY <1>2 DEF Prompting
<1>9. {h[i] : i \in DOMAIN h} = {m.said : m \in heard}
  BY <1>5
<1>10. Uttered' \subseteq Uttered
  <2>1. Heard(r)' \subseteq {m.said : m \in msgs}
    BY <1>4, <1>6, <1>9 DEF Heard
  <2>2. \A s \in Requests \ {r} : Heard(s)' = Heard(s)
    BY <1>2 DEF Heard
  <2> QED
    BY <1>3, <2>1, <2>2 DEF Uttered
<1>11. SaidInv'
  <2>1. \A s \in Requests : Asking(s)' => Asking(s) /\ reqs'[s].q = reqs[s].q
    BY <1>1, <1>2 DEF Asking, TurnPcs
  <2>2. \A s \in Requests : Unasked(s)' => Unasked(s)
    BY <1>2 DEF Unasked
  <2> QED
    BY <1>3, <1>10, <2>1, <2>2, SaidSame DEF PromptInv
<1>12. NumberInv'
  <2>1. \A s \in Requests : reqs'[s].pc \in CommitPcs => reqs'[s] = reqs[s]
    BY <1>2 DEF CommitPcs
  <2> QED
    BY <1>3, <2>1, NumberSame DEF PromptInv
<1>13. PromptIsComplete'
  <2> SUFFICES ASSUME NEW s \in Prompting'
               PROVE  LET said == {reqs'[s].history[i] : i \in DOMAIN reqs'[s].history} IN
                      /\ \A m, n \in In(reqs[s].conv)' :
                           m.at <= n.at /\ n.said = Question(reqs'[s].q) => m.said \in said
                      /\ \A m \in msgs' : m.said \in said => m.conv = reqs'[s].conv
    BY DEF PromptIsComplete
  <2>1. CASE s = r
    <3>1. \A m \in In(reqs[s].conv)' : m.said \in {h[i] : i \in DOMAIN h}
      BY <1>3, <1>6, <1>7, <1>9, <2>1 DEF In
    <3>2. \A m \in msgs : m.said \in {k.said : k \in heard} => m \in heard
      BY <1>4 DEF PromptInv, SaidInv
    <3>3. \A m \in msgs : m.said \in {h[i] : i \in DOMAIN h} => m.conv = reqs[r].conv
      BY <1>7, <1>9, <2>1, <3>2 DEF In
    <3> QED
      BY <1>3, <1>6, <2>1, <3>1, <3>3
  <2>2. CASE s # r
    <3>1. s \in Prompting /\ reqs'[s] = reqs[s] /\ In(reqs[s].conv)' = In(reqs[s].conv)
      BY <1>3, <1>8, <2>2 DEF In, Prompting
    <3> QED
      BY <1>3, <3>1 DEF PromptInv, PromptIsComplete
  <2> QED
    BY <2>1, <2>2
<1>14. TurnsInOrder'
  <2> SUFFICES ASSUME NEW s \in Prompting', NEW m \in In(reqs[s].conv)',
                      NEW n \in In(reqs[s].conv)', m.at <= n.seen,
                      NEW j \in DOMAIN reqs'[s].history,
                      reqs'[s].history[j] = n.said
               PROVE  \E i \in DOMAIN reqs'[s].history :
                        i < j /\ reqs'[s].history[i] = m.said
    BY DEF TurnsInOrder
  <2>1. CASE s = r
    <3>1. m \in heard /\ n \in heard /\ m.seq < n.seq
      BY <1>3, <1>4, <1>6, <1>7, <2>1 DEF In, PromptInv, NumberInv
    <3>2. PICK k \in heard : k.seq = j /\ k.said = n.said
      BY <1>5, <1>6, <2>1
    <3>3. k = n
      BY <1>4, <3>1, <3>2 DEF PromptInv, SaidInv
    <3> QED
      BY <1>5, <1>6, <2>1, <3>1, <3>2, <3>3
  <2>2. CASE s # r
    <3>1. s \in Prompting /\ reqs'[s] = reqs[s] /\ In(reqs[s].conv)' = In(reqs[s].conv)
      BY <1>3, <1>8, <2>2 DEF In, Prompting
    <3> QED
      BY <3>1 DEF PromptInv, TurnsInOrder
  <2> QED
    BY <2>1, <2>2
<1> QED
  BY <1>11, <1>12, <1>13, <1>14 DEF PromptInv

\* A message becomes visible: it is in no prompt, no prompt's question came after
\* it, and no number was drawn when it was visible.
LEMMA AppearKeeps ==
    ASSUME TypeInv, PromptInv, NEW r \in Requests, NEW said,
           reqs[r].pc \in CommitPcs, Appear(reqs[r], said),
           reqs[r].pc = "commit_question" => said = Question(reqs[r].q),
           reqs[r].pc = "commit_answer" => said = Answer(reqs[r].q),
           NEW q, Goto(r, q),
           \/ q = Idle
           \/ /\ reqs[r].pc = "commit_question"
              /\ q = [pc |-> "read_history", conv |-> reqs[r].conv, q |-> reqs[r].q]
    PROVE  PromptInv'
<1> DEFINE new == [seq |-> reqs[r].seq, conv |-> reqs[r].conv, said |-> said,
                   seen |-> reqs[r].seen, at |-> stored']
<1>1. /\ msgs' = msgs \cup {new} /\ new.said = said /\ new.seq = reqs[r].seq
      /\ new.seen = reqs[r].seen /\ new.at = stored + 1 /\ new.conv = reqs[r].conv
  BY DEF Appear
<1> HIDE DEF new
<1>2. reqs'[r] = q /\ \A s \in Requests \ {r} : reqs'[s] = reqs[s]
  BY GotoIs
<1>3. Asking(r) /\ r \in Committing
  BY DEF Asking, Committing
<1>4. stored \in Nat /\ reqs[r].seen \in 0..stored
  BY Pcs DEF CommitType, TypeInv
<1>5. \A m \in msgs : m.at \in 1..stored /\ m.seen \in 0..stored
  BY DEF TypeInv, TypeOK
<1>6. said \notin Uttered
  <2>1. reqs[r].pc = "commit_question" => Unasked(r)
    BY DEF Unasked
  <2> QED
    BY <1>3, <2>1 DEF CommitPcs, PromptInv, SaidInv
<1>7. \A m \in msgs : m.said # said
  BY <1>6 DEF Uttered
<1>8. \A s \in Requests : Asking(s)' => Asking(s) /\ reqs'[s].q = reqs[s].q
  BY <1>2, <1>3 DEF Asking, Idle, TurnPcs, CommitPcs
<1>9. \A s \in Requests : Unasked(s)' => s # r /\ Unasked(s) /\ Asking(s)
  BY <1>2 DEF Unasked, Asking, Idle, TurnPcs, CommitPcs
<1>10. \A s \in Committing' : s # r /\ s \in Committing /\ reqs'[s] = reqs[s]
  BY <1>2 DEF Committing, Idle, CommitPcs
<1>11. \A s \in Prompting' : s # r /\ s \in Prompting /\ reqs'[s] = reqs[s] /\ Asking(s)
  BY <1>2 DEF Prompting, Asking, Idle
<1>12. Uttered' \subseteq Uttered \cup {said}
  <2>1. \A s \in Requests : Heard(s)' \subseteq Heard(s)
    BY <1>2 DEF Heard, Idle
  <2> QED
    BY <1>1, <2>1 DEF Uttered
<1>13. NumberInv'
  <2>1. \A m, n \in msgs' : m.seq = n.seq => m = n
    BY <1>1, <1>3 DEF PromptInv, NumberInv
  <2>2. \A m, n \in msgs' : m.at <= n.seen => m.seq < n.seq
    BY <1>1, <1>3, <1>4, <1>5 DEF PromptInv, NumberInv
  <2>3. \A s \in Committing' : \A m \in msgs' :
          m.seq # reqs'[s].seq /\ (m.at <= reqs'[s].seen => m.seq < reqs'[s].seq)
    <3>1. \A s \in Committing : reqs[s].seen \in 0..stored
      BY Pcs DEF Committing, CommitType
    <3> QED
      BY <1>1, <1>3, <1>4, <1>10, <3>1 DEF PromptInv, NumberInv
  <2>4. \A s, u \in Committing' : reqs'[s].seq = reqs'[u].seq => s = u
    BY <1>10 DEF PromptInv, NumberInv
  <2> QED
    BY <2>1, <2>2, <2>3, <2>4 DEF NumberInv
<1>14. SaidInv'
  <2>1. \A s, u \in Requests : Asking(s)' /\ Asking(u)' /\ reqs'[s].q = reqs'[u].q => s = u
    BY <1>8 DEF PromptInv, SaidInv
  <2>2. \A m, n \in msgs' : m.said = n.said => m = n
    BY <1>1, <1>7 DEF PromptInv, SaidInv
  <2>3. \A s \in Requests : Unasked(s)' => Question(reqs'[s].q) \notin Uttered'
    <3>1. \A s \in Requests \ {r} : Asking(s) => said # Question(reqs[s].q)
      BY <1>3 DEF CommitPcs, Question, Answer, PromptInv, SaidInv
    <3> QED
      BY <1>2, <1>9, <1>12, <3>1 DEF PromptInv, SaidInv
  <2>4. \A s \in Requests : Asking(s)' => Answer(reqs'[s].q) \notin Uttered'
    <3>1. \A s \in Requests : Asking(s)' => said # Answer(reqs[s].q)
      <4>1. Asking(r)' => reqs[r].pc = "commit_question"
        BY <1>2 DEF Asking, Idle, TurnPcs, CommitPcs
      <4> QED
        BY <1>3, <1>8, <4>1 DEF CommitPcs, Question, Answer, PromptInv, SaidInv
    <3> QED
      BY <1>8, <1>12, <3>1 DEF PromptInv, SaidInv
  <2> QED
    BY <2>1, <2>2, <2>3, <2>4 DEF SaidInv
<1>15. \A s \in Prompting : said \notin {reqs[s].history[i] : i \in DOMAIN reqs[s].history}
  BY <1>6 DEF Prompting, Uttered, Heard
<1>16. PromptIsComplete'
  <2> SUFFICES ASSUME NEW s \in Prompting'
               PROVE  LET all == {reqs'[s].history[i] : i \in DOMAIN reqs'[s].history} IN
                      /\ \A m, n \in In(reqs[s].conv)' :
                           m.at <= n.at /\ n.said = Question(reqs'[s].q) => m.said \in all
                      /\ \A m \in msgs' : m.said \in all => m.conv = reqs'[s].conv
    BY DEF PromptIsComplete
  <2>1. s # r /\ s \in Prompting /\ reqs'[s] = reqs[s] /\ Asking(s)
    BY <1>11
  <2>2. s \in Requests /\ said # Question(reqs[s].q)
    BY <1>3, <2>1 DEF Prompting, CommitPcs, Question, Answer, PromptInv, SaidInv
  <2>3. \A m, n \in In(reqs[s].conv)' :
          m.at <= n.at /\ n.said = Question(reqs[s].q)
            => m \in In(reqs[s].conv) /\ n \in In(reqs[s].conv)
    BY <1>1, <1>4, <1>5, <2>1, <2>2 DEF In
  <2> QED
    BY <1>1, <1>15, <2>1, <2>3 DEF PromptInv, PromptIsComplete
<1>17. TurnsInOrder'
  <2> SUFFICES ASSUME NEW s \in Prompting', NEW m \in In(reqs[s].conv)',
                      NEW n \in In(reqs[s].conv)', m.at <= n.seen,
                      NEW j \in DOMAIN reqs'[s].history,
                      reqs'[s].history[j] = n.said
               PROVE  \E i \in DOMAIN reqs'[s].history :
                        i < j /\ reqs'[s].history[i] = m.said
    BY DEF TurnsInOrder
  <2>1. s # r /\ s \in Prompting /\ reqs'[s] = reqs[s]
    BY <1>11
  <2>2. n # new
    BY <1>1, <1>15, <2>1
  <2>3. m # new
    BY <1>1, <1>4, <1>5, <2>2 DEF In
  <2>4. m \in In(reqs[s].conv) /\ n \in In(reqs[s].conv)
    BY <1>1, <2>1, <2>2, <2>3 DEF In
  <2> QED
    BY <2>1, <2>4 DEF PromptInv, TurnsInOrder
<1> QED
  BY <1>13, <1>14, <1>16, <1>17 DEF PromptInv

\* Every step keeps numbers, sayings and prompts.
LEMMA PromptStep ==
    ASSUME TypeInv, PromptInv, Next
    PROVE  PromptInv'
<1>1. PICK r \in Requests :
        \/ Create(r) \/ UpdateRead(r) \/ Delete(r) \/ ShareRead(r)
        \/ UnshareRead(r) \/ Send(r) \/ Respond(r) \/ Close(r) \/ Handler(r)
        \/ Abort(r)
  BY DEF Next
<1>2. CASE Create(r) \/ Delete(r)
  <2>1. UNCHANGED reqs /\ msgs' \subseteq msgs
    BY <1>2 DEF Create, Delete
  <2>2. /\ \A s \in Requests : reqs'[s] = reqs[s]
        /\ \A s \in Requests : Asking(s)' => Asking(s)
        /\ \A s \in Requests : Unasked(s)' => Unasked(s)
    BY <2>1 DEF Asking, Unasked
  <2> QED
    BY <2>1, <2>2, NumberSame, UtteredSame, SaidSame, PromptSame DEF PromptInv
<1>3. CASE Respond(r) \/ Close(r) \/ Timeout(r)
  <2>1. PICK pc \in TurnPcs \ {"insert_question"} :
          /\ Asking(r) /\ UNCHANGED msgs
          /\ Goto(r, [pc |-> pc, conv |-> reqs[r].conv, q |-> reqs[r].q])
    BY <1>3 DEF Respond, Close, Timeout, TurnPcs, Asking
  <2> QED
    BY <2>1, MoveKeeps DEF TurnPcs, CommitPcs
<1>4. CASE UpdateRead(r) \/ ShareRead(r) \/ UnshareRead(r) \/ Update(r)
           \/ SetToken(r) \/ Abort(r)
  <2>1. \E q : Goto(r, q) /\ q.pc \in {"update", "share", "idle"}
    <3>1. CASE UpdateRead(r)
      BY <3>1 DEF UpdateRead
    <3>2. CASE ShareRead(r) \/ UnshareRead(r)
      <4>1. PICK c \in Existing, t \in {minted', NoToken} :
              Goto(r, [pc |-> "share", conv |-> c, token |-> t])
        BY <3>2 DEF ShareRead, UnshareRead
      <4> QED
        BY <4>1
    <3>3. CASE Update(r) \/ SetToken(r) \/ Abort(r)
      <4>1. Goto(r, Idle)
        BY <3>3 DEF Update, SetToken, Abort, Finish
      <4> QED
        BY <4>1 DEF Idle
    <3> QED
      BY <1>4, <3>1, <3>2, <3>3
  <2>2. UNCHANGED msgs
    BY <1>4 DEF UpdateRead, ShareRead, UnshareRead, Update, SetToken, Abort
  <2> QED
    BY <2>1, <2>2, MoveKeeps DEF TurnPcs, CommitPcs
<1>5. CASE CommitQuestion(r)
  <2>1. /\ reqs[r].pc = "commit_question"
        /\ Appear(reqs[r], Question(reqs[r].q))
        /\ Goto(r, [pc |-> "read_history", conv |-> reqs[r].conv, q |-> reqs[r].q])
    BY <1>5 DEF CommitQuestion
  <2> QED
    BY <2>1, AppearKeeps DEF CommitPcs
<1>6. CASE CommitAnswer(r)
  <2>1. reqs[r].pc = "commit_answer" /\ Goto(r, Idle)
    BY <1>6 DEF CommitAnswer, Finish
  <2>2. CASE Exists(reqs[r].conv)
    <3>1. Appear(reqs[r], Answer(reqs[r].q))
      BY <1>6, <2>2 DEF CommitAnswer
    <3> QED
      BY <2>1, <3>1, AppearKeeps DEF CommitPcs
  <2>3. CASE ~Exists(reqs[r].conv)
    <3>1. UNCHANGED msgs
      BY <1>6, <2>3 DEF CommitAnswer
    <3> QED
      BY <2>1, <3>1, MoveKeeps DEF Idle, TurnPcs, CommitPcs
  <2> QED
    BY <2>2, <2>3
<1>7. CASE Send(r)
  BY <1>7, SendKeeps
<1>8. CASE InsertQuestion(r) \/ InsertAnswer(r)
  BY <1>8, DrawKeeps
<1>9. CASE ReadHistory(r)
  BY <1>9, ReadKeeps
<1> QED
  BY <1>1, <1>2, <1>3, <1>4, <1>5, <1>6, <1>7, <1>8, <1>9 DEF Handler

\* The numbers, the sayings and the prompts hold together for ever.
LEMMA PromptInvHolds == Spec => []PromptInv
<1>1. Init => PromptInv
  <2> SUFFICES ASSUME Init PROVE PromptInv
    OBVIOUS
  <2>1. msgs = {} /\ \A r \in Requests : reqs[r].pc = "idle"
    BY DEF Init, Idle
  <2>2. Committing = {} /\ Prompting = {}
    BY <2>1 DEF Committing, Prompting, CommitPcs
  <2>3. \A r \in Requests : ~Asking(r) /\ ~Unasked(r)
    BY <2>1 DEF Asking, Unasked, TurnPcs, CommitPcs
  <2> QED
    BY <2>1, <2>2, <2>3
       DEF PromptInv, NumberInv, SaidInv, PromptIsComplete, TurnsInOrder
<1>2. TypeInv /\ PromptInv /\ [Next]_vars => PromptInv'
  <2>1. ASSUME PromptInv, UNCHANGED vars PROVE PromptInv'
    <3>1. UNCHANGED <<msgs, reqs>>
      BY <2>1 DEF vars
    <3>2. /\ \A s \in Requests : Asking(s)' => Asking(s)
          /\ \A s \in Requests : Unasked(s)' => Unasked(s)
      BY <3>1 DEF Asking, Unasked
    <3> QED
      BY <2>1, <3>1, <3>2, NumberSame, UtteredSame, SaidSame, PromptSame DEF PromptInv
  <2> QED
    BY <2>1, PromptStep
<1> QED
  BY <1>1, <1>2, TypesKept, PTL DEF Spec

\* Unless its history could not be read, a prompt has everything that was visible
\* in its conversation when its question became visible, and nothing of another
\* one: however many requests ask, answer and delete at the same time, and
\* although numbers are drawn in another order than they become visible in.
THEOREM PromptsComplete == Spec => []PromptIsComplete
<1>1. PromptInv => PromptIsComplete
  BY DEF PromptInv
<1> QED
  BY <1>1, PromptInvHolds, PTL

\* A prompt has before each message what was visible when that was begun.
THEOREM PromptsInOrder == Spec => []TurnsInOrder
<1>1. PromptInv => TurnsInOrder
  BY DEF PromptInv
<1> QED
  BY <1>1, PromptInvHolds, PTL
==============================================================================
