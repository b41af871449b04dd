--------------------------------- MODULE Chat ---------------------------------
(***************************************************************************)
(* Conversations of one user with a language model (chat.rs).  Requests    *)
(* run side by side, each statement on its own; the model is an HTTP       *)
(* service that may refuse, answer, break off or say nothing.              *)
(*                                                                         *)
(* A question and its answer are known by the number of the question; what *)
(* they say, titles, models and other settings are left out.  The read-    *)
(* only handlers (list, messages, search, export) have no action.          *)
(***************************************************************************)
EXTENDS Naturals, Sequences, FiniteSets

CONSTANTS
    Requests,         \* requests that may run at the same time
    MaxRequests,      \* bound: requests of a behaviour
    MaxConversations  \* bound: conversations ever created

ASSUME ChatAssumption == MaxRequests \in Nat /\ MaxConversations \in Nat

VARIABLES
    convs,    \* conversations, in the order of their creation
    msgs,     \* messages that are visible, with their chain_seq
    drawn,    \* the sequence that chain_seq is drawn from
    stored,   \* messages that became visible so far (history)
    reqs,     \* local state of each request
    left,     \* requests that may still start
    asked,    \* questions taken so far; numbers the next one
    minted,   \* share tokens drawn so far; numbers the next one
    worked,   \* tokens that were the link of a conversation (history)
    dropped   \* questions whose request ended early (history)

vars == <<convs, msgs, drawn, stored, reqs, left, asked, minted, worked, dropped>>

Idle == [pc |-> "idle"]
NoToken == 0

\* A deleted conversation stays as a tombstone, so that numbers are not reused.
Exists(c) == c \in DOMAIN convs /\ convs[c].state # "deleted"
Existing == {c \in DOMAIN convs : Exists(c)}

\* share_view: the token leads to the conversation that has it now.
Works(t) == \E c \in DOMAIN convs : Exists(c) /\ convs[c].token = t

Question(k) == [role |-> "user", q |-> k]
Answer(k) == [role |-> "assistant", q |-> k]
In(c) == {m \in msgs : m.conv = c}
Stored(said) == \E m \in msgs : m.said = said

Start(r) ==
    /\ reqs[r] = Idle
    /\ left > 0
    /\ left' = left - 1

Goto(r, state) == reqs' = [reqs EXCEPT ![r] = state]
Finish(r) == Goto(r, Idle)

\* The questions that request r alone can still answer.
Owes(r) == IF "q" \in DOMAIN reqs[r] THEN {reqs[r].q} ELSE {}

\* An error, a client that left (its stream is dropped where it stands) or a
\* server that stopped.
Abort(r) ==
    /\ reqs[r] # Idle
    /\ dropped' = dropped \cup Owes(r)
    /\ Finish(r)
    /\ UNCHANGED <<convs, msgs, drawn, stored, left, asked, minted, worked>>

-----------------------------------------------------------------------------
(* Conversations *)

Create(r) ==
    /\ Start(r)
    /\ Len(convs) < MaxConversations
    /\ convs' = Append(convs, [state |-> "listed", token |-> NoToken])
    /\ UNCHANGED <<msgs, drawn, stored, reqs, asked, minted, worked, dropped>>

\* PATCH, share and unshare read the row and later write some of its columns.
UpdateRead(r) ==
    /\ Start(r)
    /\ \E c \in Existing, state \in {"listed", "archived"} :
         Goto(r, [pc |-> "update", conv |-> c, row |-> convs[c], state |-> state])
    /\ UNCHANGED <<convs, msgs, drawn, stored, asked, minted, worked, dropped>>

\* Mutant: the whole row is written, as it was read.
UpdateWholeRow(r) ==
    LET q == reqs[r] IN
    /\ q.pc = "update" /\ Exists(q.conv)
    /\ convs' = [convs EXCEPT ![q.conv] = [q.row EXCEPT !.state = q.state]]
    /\ Finish(r)
    /\ UNCHANGED <<msgs, drawn, stored, left, asked, minted, worked, dropped>>

\* The UPDATE of a conversation that is gone fails: an Abort.
Update(r) ==
    LET q == reqs[r] IN
    /\ q.pc = "update" /\ Exists(q.conv)
    /\ convs' = [convs EXCEPT ![q.conv].state = q.state]
    /\ Finish(r)
    /\ UNCHANGED <<msgs, drawn, stored, left, asked, minted, worked, dropped>>

\* The messages go with their conversation (ON DELETE CASCADE).
Delete(r) ==
    /\ Start(r)
    /\ \E c \in Existing :
         /\ convs' = [convs EXCEPT ![c] = [state |-> "deleted", token |-> NoToken]]
         /\ msgs' = msgs \ In(c)
    /\ UNCHANGED <<drawn, stored, reqs, asked, minted, worked, dropped>>

-----------------------------------------------------------------------------
(* The public link of a conversation: a random token, of which the hash is *)
(* a column of the row.                                                    *)

ShareRead(r) ==
    /\ Start(r)
    /\ minted' = minted + 1
    /\ \E c \in Existing :
         Goto(r, [pc |-> "share", conv |-> c, token |-> minted'])
    /\ UNCHANGED <<convs, msgs, drawn, stored, asked, worked, dropped>>

UnshareRead(r) ==
    /\ Start(r)
    /\ \E c \in Existing :
         Goto(r, [pc |-> "share", conv |-> c, token |-> NoToken])
    /\ UNCHANGED <<convs, msgs, drawn, stored, asked, minted, worked, dropped>>

SetToken(r) ==
    LET q == reqs[r] IN
    /\ q.pc = "share" /\ Exists(q.conv)
    /\ convs' = [convs EXCEPT ![q.conv].token = q.token]
    /\ worked' = worked \cup ({q.token} \ {NoToken})
    /\ Finish(r)
    /\ UNCHANGED <<msgs, drawn, stored, left, asked, minted, dropped>>

-----------------------------------------------------------------------------
(* POST /conversations/{id}/messages *)

Send(r) ==
    /\ Start(r)
    /\ asked' = asked + 1
    /\ \E c \in Existing :
         Goto(r, [pc |-> "insert_question", conv |-> c, q |-> asked'])
    /\ UNCHANGED <<convs, msgs, drawn, stored, minted, worked, dropped>>

\* INSERT INTO messages: the default of chain_seq draws a number when the row is
\* built, and no lock keeps other requests from doing so before it commits.
Draw(r, pc) ==
    /\ drawn' = drawn + 1
    /\ Goto(r, [pc |-> pc, conv |-> reqs[r].conv, q |-> reqs[r].q,
                seq |-> drawn', seen |-> stored])
    /\ UNCHANGED <<convs, msgs, stored, left, asked, minted, worked, dropped>>

\* The row becomes visible.  "at" is when, among all messages, and "seen" how
\* many were visible when its number was drawn (history).
Appear(q, said) ==
    /\ stored' = stored + 1
    /\ msgs' = msgs \cup {[seq |-> q.seq, conv |-> q.conv, said |-> said,
                           seen |-> q.seen, at |-> stored']}

InsertQuestion(r) == reqs[r].pc = "insert_question" /\ Draw(r, "commit_question")

\* The foreign key refuses a message of a conversation that is gone: an Abort.
CommitQuestion(r) ==
    LET q == reqs[r] IN
    /\ q.pc = "commit_question" /\ Exists(q.conv)
    /\ Appear(q, Question(q.q))
    /\ Goto(r, [pc |-> "read_history", conv |-> q.conv, q |-> q.q])
    /\ UNCHANGED <<convs, drawn, left, asked, minted, worked, dropped>>

\* Mutant: the newest message comes first.
NewestFirst(rows) ==
    [i \in {drawn + 1 - m.seq : m \in rows} |->
       (CHOOSE m \in rows : drawn + 1 - m.seq = i).said]

\* Rows in the order of chain_seq: what is said at each number that occurs.
OrderByChainSeq(rows) ==
    [i \in {m.seq : m \in rows} |-> (CHOOSE m \in rows : m.seq = i).said]

\* Mutant: the other side's messages are not sent along.
ReadQuestions(r) ==
    LET q == reqs[r] IN
    /\ q.pc = "read_history"
    /\ \E heard \in {{}, {m \in In(q.conv) : m.said.role = "user"}} :
         Goto(r, [pc |-> "connect", conv |-> q.conv, q |-> q.q,
                  history |-> OrderByChainSeq(heard)])
    /\ UNCHANGED <<convs, msgs, drawn, stored, left, asked, minted, worked,
                   dropped>>

\* insert_message reads its row back (when that is gone the request ends, an
\* Abort); then every message of the conversation is read, or none when that
\* fails.  openai_stream sends the history, and the question once more after it.
ReadHistory(r) ==
    LET q == reqs[r] IN
    /\ q.pc = "read_history" /\ Stored(Question(q.q))
    /\ \E heard \in {{}, In(q.conv)} :
         Goto(r, [pc |-> "connect", conv |-> q.conv, q |-> q.q,
                  history |-> OrderByChainSeq(heard)])
    /\ UNCHANGED <<convs, msgs, drawn, stored, left, asked, minted, worked,
                   dropped>>

\* The model may take the request, ...
Respond(r) ==
    /\ reqs[r].pc = "connect"
    /\ Goto(r, [pc |-> "stream", conv |-> reqs[r].conv, q |-> reqs[r].q])
    /\ UNCHANGED <<convs, msgs, drawn, stored, left, asked, minted, worked,
                   dropped>>

\* ... refuse it, which makes the stub answer, or end its stream, whole or
\* not: whatever has arrived is the answer.
Close(r) ==
    /\ reqs[r].pc \in {"connect", "stream"}
    /\ Goto(r, [pc |-> "insert_answer", conv |-> reqs[r].conv, q |-> reqs[r].q])
    /\ UNCHANGED <<convs, msgs, drawn, stored, left, asked, minted, worked,
                   dropped>>

\* Mutant: the client waits for the first byte only.
TimeoutConnect(r) == reqs[r].pc = "connect" /\ Close(r)

\* The HTTP client's 120 seconds, from the request to the end of the body.
Timeout(r) == Close(r)

InsertAnswer(r) == reqs[r].pc = "insert_answer" /\ Draw(r, "commit_answer")

\* Mutant: the table of messages has no foreign key.
CommitAnswerAnyway(r) ==
    LET q == reqs[r] IN
    /\ q.pc = "commit_answer"
    /\ Appear(q, Answer(q.q))
    /\ Finish(r)
    /\ UNCHANGED <<convs, drawn, left, asked, minted, worked, dropped>>

\* When the conversation is gone the error is ignored: the stream says "done".
CommitAnswer(r) ==
    LET q == reqs[r] IN
    /\ q.pc = "commit_answer"
    /\ IF Exists(q.conv) THEN Appear(q, Answer(q.q))
                         ELSE UNCHANGED <<msgs, stored>>
    /\ Finish(r)
    /\ UNCHANGED <<convs, drawn, left, asked, minted, worked, dropped>>

-----------------------------------------------------------------------------
Init ==
    /\ convs = <<>>
    /\ msgs = {}
    /\ drawn = 0
    /\ stored = 0
    /\ reqs = [r \in Requests |-> Idle]
    /\ left = MaxRequests
    /\ asked = 0
    /\ minted = 0
    /\ worked = {}
    /\ dropped = {}

Handler(r) ==
    \/ Update(r) \/ SetToken(r)
    \/ InsertQuestion(r) \/ CommitQuestion(r) \/ ReadHistory(r) \/ Timeout(r)
    \/ InsertAnswer(r) \/ CommitAnswer(r)

Next ==
    \E r \in Requests :
      \/ Create(r) \/ UpdateRead(r) \/ Delete(r) \/ ShareRead(r) \/ UnshareRead(r)
      \/ Send(r) \/ Respond(r) \/ Close(r) \/ Handler(r) \/ Abort(r)

\* A request goes on unless it is aborted (a client reads, or else leaves); the
\* language model need not do anything, and nobody has to begin a request.
Spec == Init /\ [][Next]_vars /\ \A r \in Requests : WF_vars(Handler(r))

-----------------------------------------------------------------------------
(* Properties *)

Said == [role : {"user", "assistant"}, q : 1..asked]

TypeOK ==
    /\ convs \in Seq([state : {"listed", "archived", "deleted"}, token : 0..minted])
    /\ msgs \subseteq [seq : 1..drawn, conv : Existing, said : Said,
                      seen : 0..stored, at : 1..stored]
    /\ worked \subseteq 1..minted /\ dropped \subseteq 1..asked

\* A link that was withdrawn or replaced, or whose conversation was deleted,
\* never works again, although requests that had read it before still write
\* to its row.
DeadTokenStaysDead ==
    [][\A t \in worked : ~Works(t) => ~Works(t)']_vars

\* Requests whose history could be read, and is not yet sent to the model.
Prompting == {r \in Requests : reqs[r].pc = "connect" /\ reqs[r].history # <<>>}

\* The model is shown everything that was visible in the conversation when its
\* question became visible, whatever number it has and whatever requests ran
\* beside this one; and nothing of another conversation.
PromptIsComplete ==
    \A r \in Prompting :
      LET said == {reqs[r].history[i] : i \in DOMAIN reqs[r].history} IN
      /\ \A m, n \in In(reqs[r].conv) :
           m.at <= n.at /\ n.said = Question(reqs[r].q) => m.said \in said
      /\ \A m \in msgs : m.said \in said => m.conv = reqs[r].conv

\* What was visible when a message was begun is shown to the model before it: a
\* question before its answer, and an answer before the questions that followed.
\* Messages begun side by side have no such order.
TurnsInOrder ==
    \A r \in Prompting :
      LET history == reqs[r].history IN
      \A m, n \in In(reqs[r].conv) :
        m.at <= n.seen =>
          \A j \in DOMAIN history :
            history[j] = n.said => \E i \in DOMAIN history : i < j /\ history[i] = m.said

\* A question that was stored does not stay without an answer, even if the
\* model never says a word: it is answered, or its conversation is deleted, or
\* its request ended early.
QuestionSettled ==
    \A k \in 1..MaxRequests :
      Stored(Question(k)) ~> \/ Stored(Answer(k))
                             \/ k \in dropped
                             \/ ~Stored(Question(k))
===============================================================================
