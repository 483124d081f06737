------------------------------- MODULE AgentTurn -------------------------------
(***************************************************************************)
(* The turns of one conversation with the agent (agent/workflow/session.py *)
(* and question_receipt.py).  A turn runs the graph, which saves a         *)
(* checkpoint after every step, under the lock of the conversation.  What  *)
(* the agent asks is put to the user as a challenge; the answer claims it  *)
(* under a lease and is used for one turn.                                 *)
(*                                                                         *)
(* ask() and resume() run in one thread of the server's pool.  stream() is *)
(* a generator: every step to its next event runs in any free thread, and  *)
(* an abandoned one is closed outside the pool.  The lock is a             *)
(* threading.RLock: it belongs to the thread that took it, which may take  *)
(* it again, and no other thread can give it back.                         *)
(***************************************************************************)
EXTENDS Naturals

CONSTANTS
    Turns,         \* requests to the conversation
    Streams,       \* those that go through stream()
    Workers,       \* threads of the pool
    NoThread,      \* no thread
    Challenges,    \* numbers of challenges, from 1
    MaxSaves       \* bound: checkpoints saved

ASSUME AgentTurnAssumption ==
    /\ Streams \subseteq Turns /\ NoThread \notin Workers
    /\ MaxSaves \in Nat /\ Challenges \subseteq Nat \ {0}

VARIABLES
    turnLock,      \* its owner and how often it was taken
    place,         \* where each turn is
    worker,        \* the thread that runs it
    answers,       \* the challenge its request answers, 0 for a new message
    checkpoint,    \* the revision of the newest checkpoint
    asked,         \* the agent has asked something there
    book,          \* _CHALLENGES: state, revision and lease
    stopped,       \* _STOP
    used,          \* history: challenges and the turns that went on with their answer
    unread         \* history: challenges used up because the checkpoint could not be read

turnVars == <<turnLock, place, worker, answers, checkpoint, asked, book, stopped, used, unread>>

NoChallenge == [state |-> "none", revision |-> 0, lease |-> NoThread]
Free(w) == \A t \in Turns : worker[t] # w
Inside(t) == place[t] \in {"locked", "prepared", "running", "shaping", "leaving"}
Lease(c, t) == book[c].state = "inflight" /\ book[c].lease = t
Numbered == {c \in Challenges : book[c] # NoChallenge}
Known == {c \in Numbered : book[c].state # "gone"}
SetBook(c, row) == book' = [book EXCEPT ![c] = row]

TurnInit ==
    /\ turnLock = [owner |-> NoThread, count |-> 0]
    /\ place = [t \in Turns |-> "new"]
    /\ worker = [t \in Turns |-> NoThread]
    /\ answers = [t \in Turns |-> 0]
    /\ checkpoint = 1 /\ asked = TRUE
    /\ book = [c \in Challenges |-> NoChallenge]
    /\ stopped = FALSE
    /\ used = {} /\ unread = {}

Place(t, p) == place' = [place EXCEPT ![t] = p]

-----------------------------------------------------------------------------
(* Challenges. *)

\* issue_question_challenge, by a turn that ends or by a snapshot: one challenge for the
\* questions of a checkpoint, and none once they were answered.
Issue ==
    IF asked /\ (\A c \in Known : book[c].revision # checkpoint) /\ Challenges \ Numbered # {}
      THEN SetBook(CHOOSE c \in Challenges \ Numbered : \A d \in Challenges \ Numbered : c <= d,
                   [state |-> "pending", revision |-> checkpoint, lease |-> NoThread])
      ELSE UNCHANGED book

\* snapshot(), outside the lock.
Snapshot ==
    /\ Issue
    /\ UNCHANGED <<turnLock, place, worker, answers, checkpoint, asked, stopped, used, unread>>

\* _purge, of answers under way too when they are twice as old.
Expire(c) ==
    /\ c \in Known
    /\ SetBook(c, [book[c] EXCEPT !.state = "gone"])
    /\ UNCHANGED <<turnLock, place, worker, answers, checkpoint, asked, stopped, used, unread>>

\* Slip: that the challenge was issued is enough.
ClaimableIfKnown(c) == c \in Known

\* Not submitted yet, and asked at this very checkpoint.
Claimable(c) == book[c].state = "pending" /\ book[c].revision = checkpoint

\* A lease that ends: its answer is used up or given back.
EndLease(t, spent) ==
    book' = [c \in Challenges |->
        IF ~Lease(c, t) THEN book[c]
        ELSE [book[c] EXCEPT !.lease = NoThread,
                  !.state = IF c \in spent THEN "consumed" ELSE "pending"]]

\* _finish_receipt: only a failure that is seen to have changed nothing gives the answer back.
Finish(t, success) ==
    \E readable \in BOOLEAN :
        /\ EndLease(t, {c \in Challenges :
                          success \/ ~readable \/ checkpoint # book[c].revision})
        /\ unread' = IF success \/ readable THEN unread
                     ELSE unread \cup {c \in Challenges : Lease(c, t)}

-----------------------------------------------------------------------------
(* A turn. *)

\* The request arrives; it is a message or the answer to a challenge the user was shown.
Call(t, w) ==
    /\ place[t] = "new" /\ Free(w)
    /\ \E c \in {0} \cup Numbered : answers' = [answers EXCEPT ![t] = c]
    /\ worker' = [worker EXCEPT ![t] = w]
    /\ Place(t, "waiting")
    /\ UNCHANGED <<turnLock, checkpoint, asked, book, stopped, used, unread>>

\* question_turn_lock
Lock(t) ==
    /\ place[t] = "waiting"
    /\ turnLock.owner \in {NoThread, worker[t]}
    /\ turnLock' = [owner |-> worker[t], count |-> turnLock.count + 1]
    /\ Place(t, "locked")
    /\ UNCHANGED <<worker, answers, checkpoint, asked, book, stopped, used, unread>>

\* _prepare_turn reads the checkpoint and claims the challenge, or the answer is rejected.
Prepare(t) ==
    /\ place[t] = "locked"
    /\ stopped' = (stopped /\ t \notin Streams)
    /\ \/ answers[t] = 0 /\ Place(t, "prepared") /\ UNCHANGED book
       \/ /\ answers[t] # 0 /\ Claimable(answers[t])
          /\ Place(t, "prepared")
          /\ SetBook(answers[t], [book[answers[t]] EXCEPT !.state = "inflight", !.lease = t])
       \/ /\ answers[t] # 0 /\ ~Claimable(answers[t])
          /\ Place(t, "leaving") /\ UNCHANGED book
    /\ UNCHANGED <<turnLock, worker, answers, checkpoint, asked, used, unread>>

\* _initial or _turn_start_patch fails: release_question_receipt, which reads no checkpoint.
PreparationFails(t) ==
    /\ place[t] = "prepared"
    /\ EndLease(t, {}) /\ UNCHANGED unread
    /\ Place(t, "leaving")
    /\ UNCHANGED <<turnLock, worker, answers, checkpoint, asked, stopped, used>>

\* The graph saves a checkpoint: first its input, then after each node.
SaveCheckpoint(t) ==
    /\ place[t] \in {"prepared", "running"} /\ worker[t] # NoThread
    /\ checkpoint < MaxSaves
    /\ checkpoint' = checkpoint + 1
    /\ asked' \in BOOLEAN
    /\ used' = used \cup ({<<answers[t], t>>} \ {<<0, t>>})
    /\ Place(t, "running")
    /\ UNCHANGED <<turnLock, worker, answers, book, stopped, unread>>

\* It reaches its end.
Succeed(t) ==
    /\ place[t] = "running" /\ worker[t] # NoThread
    /\ Finish(t, TRUE)
    /\ Place(t, "shaping")
    /\ UNCHANGED <<turnLock, worker, answers, checkpoint, asked, stopped, used>>

\* It raises: ask() and resume() do too, stream() reports it and goes on.
Fail(t) ==
    /\ place[t] \in {"prepared", "running"} /\ worker[t] # NoThread
    /\ Finish(t, FALSE)
    /\ Place(t, IF t \in Streams THEN "shaping" ELSE "leaving")
    /\ UNCHANGED <<turnLock, worker, answers, checkpoint, asked, stopped, used>>

\* stream() looks for the user's stop between two events.
Stop(t) ==
    /\ place[t] = "running" /\ t \in Streams /\ worker[t] # NoThread
    /\ stopped /\ stopped' = FALSE
    /\ Finish(t, FALSE)
    /\ Place(t, "leaving")
    /\ UNCHANGED <<turnLock, worker, answers, checkpoint, asked, used>>

request_stop ==
    /\ stopped' = TRUE
    /\ UNCHANGED <<turnLock, place, worker, answers, checkpoint, asked, book, used, unread>>

\* _shape shows the questions of the checkpoint.
Shape(t) ==
    /\ place[t] = "shaping" /\ worker[t] # NoThread
    /\ Issue
    /\ Place(t, "leaving")
    /\ UNCHANGED <<turnLock, worker, answers, checkpoint, asked, stopped, used, unread>>

\* The generator yields an event, and its thread goes back to the pool.
Yield(t) ==
    /\ t \in Streams /\ place[t] \in {"running", "leaving"} /\ worker[t] # NoThread
    /\ worker' = [worker EXCEPT ![t] = NoThread]
    /\ UNCHANGED <<turnLock, place, answers, checkpoint, asked, book, stopped, used, unread>>

Continue(t, w) ==
    /\ Inside(t) /\ worker[t] = NoThread /\ Free(w)
    /\ worker' = [worker EXCEPT ![t] = w]
    /\ UNCHANGED <<turnLock, place, answers, checkpoint, asked, book, stopped, used, unread>>

\* The lock is left: a thread that does not own it raises, and it stays taken.
Leave(t) ==
    /\ place[t] = "leaving" /\ worker[t] # NoThread
    /\ turnLock' = IF turnLock.owner # worker[t] THEN turnLock
                   ELSE IF turnLock.count > 1 THEN [turnLock EXCEPT !.count = @ - 1]
                   ELSE [owner |-> NoThread, count |-> 0]
    /\ Place(t, "done")
    /\ worker' = [worker EXCEPT ![t] = NoThread]
    /\ UNCHANGED <<answers, checkpoint, asked, book, stopped, used, unread>>

\* Slip: only a generator that runs to its end finishes the answer.
AbandonLease(t) ==
    /\ Inside(t) /\ worker[t] = NoThread
    /\ Place(t, "done")
    /\ UNCHANGED <<turnLock, worker, answers, checkpoint, asked, book, stopped, used, unread>>

\* The browser goes away: the generator is closed where it waits, by no thread of the pool.
Abandon(t) ==
    /\ Inside(t) /\ worker[t] = NoThread
    /\ Finish(t, FALSE)
    /\ Place(t, "done")
    /\ UNCHANGED <<turnLock, worker, answers, checkpoint, asked, stopped, used>>

TurnNext ==
    \/ Snapshot \/ request_stop
    \/ \E c \in Challenges : Expire(c)
    \/ \E t \in Turns :
          \/ \E w \in Workers : Call(t, w) \/ Continue(t, w)
          \/ Lock(t) \/ Prepare(t) \/ PreparationFails(t)
          \/ SaveCheckpoint(t) \/ Succeed(t) \/ Fail(t) \/ Stop(t)
          \/ Shape(t) \/ Yield(t) \/ Leave(t) \/ Abandon(t)

TurnSpec == TurnInit /\ [][TurnNext]_turnVars

-----------------------------------------------------------------------------
(* Properties *)

(* Two turns of a conversation do not overlap, so that a paused branch cannot *)
(* race a new turn: what question_turn_lock is for.                           *)
TurnsAreSerial == \A t, u \in Turns : Inside(t) /\ Inside(u) => t = u

(* The answer to a challenge carries at most one turn on, although turns fail, *)
(* are stopped, abandoned or repeated, and even when they overlap.             *)
AnswerIsUsedOnce == \A x, y \in used : x[1] = y[1] => x = y

(* No answer is lost: a challenge is used up only when the conversation went   *)
(* on from it, or when the turn that held it failed and could not read whether *)
(* it had (_finish_receipt), and it is held by a turn only while that turn is  *)
(* under way.                                                                  *)
AnswersAreKept ==
    \A c \in Challenges :
        /\ book[c].state = "consumed" => checkpoint > book[c].revision \/ c \in unread
        /\ book[c].state = "inflight" => Inside(book[c].lease)

=============================================================================
