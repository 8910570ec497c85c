----------------------------- MODULE SavedChat -----------------------------
(***************************************************************************)
(* Saved chats: each open chat (internal/chat/saved.go, conn.go) keeps a   *)
(* transcript in memory and what the app may reopen in the conversation    *)
(* store (internal/conversations/store.go), call by call, while other      *)
(* chats, the check-in job and the app's deletions use the same store.     *)
(***************************************************************************)
EXTENDS Naturals, SequencesExt

CONSTANTS Chats, Briefing, Keep, MaxConversations, Limits

ASSUME SavedConstants ==
    /\ Briefing \notin Chats
    /\ Keep \in Nat \ {0} /\ MaxConversations \in Nat
    /\ Limits \subseteq [open : Nat, turns : Nat, failures : Nat]

VARIABLES
    kept,     \* the conversations, the one active last first
    messages, title, turns, \* of each: its messages, its title, its turns recorded
    chat,     \* what each open chat, or the check-in, holds in memory
    todo,     \* the store calls its handler has yet to make
    ids, asked, failures, \* conversations started, turns taken, store calls failed
    limits,   \* on chats open at once, turns and failures
    shared,   \* conversations that two chats have had open at once
    redone,   \* and those whose last answer was tried again
    did       \* history: of each conversation, the turns whose actions ran

savedVars == <<kept, messages, title, turns, chat, todo, ids, asked, failures, limits, shared, redone, did>>

None == 0
Ids == 1..MaxConversations
Writers == Chats \cup {Briefing}

Closed == [at |-> "closed", id |-> None, context |-> FALSE, pending |-> <<>>, off |-> FALSE,
           shown |-> <<>>]
Message(role, of, hidden, text, ran) ==
    [role |-> role, of |-> of, hidden |-> hidden, text |-> text, ran |-> ran]
Question(of) == Message("user", of, FALSE, TRUE, FALSE)

Start(t) == [call |-> "start", title |-> t]
AppendOf(m) == [call |-> "append", m |-> m]
Record == [call |-> "record"]
Drop == [call |-> "drop"]

SavedInit ==
    /\ kept = <<>> /\ ids = 0 /\ asked = 0 /\ failures = 0 /\ shared = {} /\ redone = {}
    /\ limits \in Limits
    /\ messages = [i \in Ids |-> <<>>] /\ title = [i \in Ids |-> "none"] /\ turns = [i \in Ids |-> 0]
    /\ did = [i \in Ids |-> {}]
    /\ chat = [w \in Writers |-> Closed] /\ todo = [w \in Writers |-> <<>>]

storeVars == <<kept, messages, title, turns, ids, failures, limits, redone>>
Active(w) == ~chat[w].off
IsKept(i) == i \in ToSet(kept)
Without(s, i) == RemoveAt(s, CHOOSE k \in DOMAIN s : s[k] = i)
AtRest(c) == chat[c].at = "idle" /\ todo[c] = <<>>
Holds(w, i) == chat[w].at # "closed" /\ chat[w].id = i

\* What a writer is about to append, and the turns whose actions ran.
ToAppend(w) == {call.m : call \in {call \in ToSet(todo[w]) : call.call = "append"}}
RanIn(ms) == {m.of : m \in {m \in ms : m.ran}}
-----------------------------------------------------------------------------
(* Reading a transcript. *)

\* replayable: no blank text, but for what became of a reply's actions; the
\* user first; strictly alternating, so two of one role become one.
Told(m) == m.text \/ m.ran
Taken(out, m) ==
    IF ~Told(m) \/ (out = <<>> /\ m.role # "user") THEN out
    ELSE IF out # <<>> /\ Last(out).role = m.role
         THEN [out EXCEPT ![Len(out)].of = @ \cup {m.of}]
         ELSE Append(out, [role |-> m.role, of |-> {m.of}])
Replayable(ms) ==
    LET out[n \in 0..Len(ms)] == IF n = 0 THEN <<>> ELSE Taken(out[n - 1], ms[n])
    IN out[Len(ms)]

LastQuestion(ms) == SelectLastInSeq(ms, LAMBDA m : m.role = "user")
UpToQuestion(ms) == SubSeq(ms, 1, LastQuestion(ms))

\* ranActions
NoneRan(ms) == FALSE
AnyRan(ms) == \E k \in DOMAIN ms : ms[k].ran

\* Store.List, Store.Get with the hidden messages, and what the app is shown.
Listed == ToSet(kept)
Get(i) == messages[i]
Shown(i) == {m \in ToSet(Get(i)) : ~m.hidden}
-----------------------------------------------------------------------------
(* The chat. *)

\* A new chat, or a saved one by ?conversation=: one deleted since is
\* refused, and leaves nothing behind.
Opens(c) ==
    /\ chat[c].at = "closed" /\ Cardinality({d \in Chats : chat[d].at # "closed"}) < limits.open
    /\ \/ \E context \in BOOLEAN :
            /\ chat' = [chat EXCEPT ![c] = [Closed EXCEPT !.at = "idle", !.context = context]]
            /\ UNCHANGED shared
       \/ \E i \in Listed :
            /\ chat' = [chat EXCEPT ![c] = [Closed EXCEPT !.at = "idle", !.id = i, !.shown = Get(i)]]
            /\ shared' = IF todo[Briefing] # <<>> \/ \E w \in Chats : Holds(w, i) THEN shared \cup {i} ELSE shared
    /\ UNCHANGED <<storeVars, todo, asked, did>>

Leaves(c) ==
    /\ chat[c].at \in {"idle", "leaving"} /\ todo[c] = <<>>
    /\ chat' = [chat EXCEPT ![c] = Closed]
    /\ UNCHANGED <<storeVars, todo, asked, shared, did>>

\* ask, with userSaid: only a chat's very first message is the app's hidden
\* context, and a context chat waits for its first reply.
WaitsForReply(c) == chat[c].context
Said(c, m) ==
    IF ~Active(c) THEN <<>>
    ELSE IF chat[c].id # None THEN <<AppendOf(m)>>
    ELSE IF WaitsForReply(c) THEN <<>>
    ELSE <<Start("first words"), AppendOf([m EXCEPT !.hidden = chat[c].context])>>
IsContext(c) == chat[c].pending = <<>>
Asks(c) ==
    LET m == Question(asked + 1)
        waits == Active(c) /\ chat[c].id = None /\ WaitsForReply(c)
    IN  /\ AtRest(c) /\ asked < limits.turns
        /\ asked' = asked + 1
        /\ todo' = [todo EXCEPT ![c] = Said(c, m)]
        /\ chat' = [chat EXCEPT ![c].at = "asked", ![c].shown = Append(@, m),
                                ![c].pending = IF waits THEN Append(@, [m EXCEPT !.hidden = IsContext(c)])
                                               ELSE @]
        /\ UNCHANGED <<storeVars, shared, did>>

\* retry: refused without a question, or when the answer's actions ran.
Retries(c) ==
    LET shown == chat[c].shown
        last == LastQuestion(shown)
    IN  /\ AtRest(c) /\ asked < limits.turns
        /\ last # 0 /\ ~AnyRan(SubSeq(shown, last + 1, Len(shown)))
        /\ asked' = asked + 1
        /\ chat' = [chat EXCEPT ![c].at = "asked", ![c].shown = UpToQuestion(@)]
        /\ todo' = [todo EXCEPT ![c] = IF Active(c) /\ chat[c].id # None THEN <<Drop>> ELSE <<>>]
        /\ UNCHANGED <<storeVars, shared, did>>

\* answer, with remember: what the transcript keeps; and turnEnded: the reply
\* is saved when the turn finished or the user stopped it, if it has text,
\* and whenever an action ran.
ForgetsFailed(end, text, ran) == end \in {"done", "stopped"} /\ (text \/ ran)
Remembered(end, text, ran) == IF end = "failed" THEN ran ELSE text \/ ran
Answered(end, text, ran) == (end \in {"done", "stopped"} /\ text) \/ ran
Ended(c, reply, answered) ==
    LET context == chat[c].id = None
        last == IF answered THEN <<AppendOf(reply)>> ELSE <<>>
    IN  IF ~Active(c) \/ (context /\ (chat[c].pending = <<>> \/ ~answered)) THEN <<>>
        ELSE IF context
        THEN <<Start("Explanation")>>
             \o [k \in DOMAIN chat[c].pending |-> AppendOf(chat[c].pending[k])] \o last \o <<Record>>
        ELSE last \o <<Record>>
TurnEnds(c) == \E end \in {"done", "stopped", "failed", "left"}, text, ran \in BOOLEAN :
    LET reply == Message("assistant", asked, FALSE, text, ran)
        answered == Answered(end, text, ran)
    IN  /\ chat[c].at = "asked" /\ todo[c] = <<>>
        /\ todo' = [todo EXCEPT ![c] = Ended(c, reply, answered)]
        /\ chat' = [chat EXCEPT ![c].at = IF end = "left" THEN "leaving" ELSE "idle",
                                ![c].shown = IF Remembered(end, text, ran) THEN Append(@, reply) ELSE @]
        /\ did' = IF ran /\ chat[c].id # None THEN [did EXCEPT ![chat[c].id] = @ \cup {asked}] ELSE did
        /\ UNCHANGED <<storeVars, asked, shared>>

\* CheckIn, once the model has written its briefing.
ChecksIn ==
    LET of == asked + 1
    IN  /\ todo[Briefing] = <<>> /\ asked < limits.turns /\ asked' = of
        /\ chat' = [chat EXCEPT ![Briefing] = Closed]
        /\ todo' = [todo EXCEPT ![Briefing] =
                <<Start("asked for"), AppendOf([Question(of) EXCEPT !.hidden = TRUE]),
                  AppendOf(Message("assistant", of, FALSE, TRUE, FALSE)), Record>>]
        /\ UNCHANGED <<storeVars, shared, did>>
-----------------------------------------------------------------------------
(* The store's calls. *)

Called(w) == todo' = [todo EXCEPT ![w] = Tail(@)]
\* A failed start ends its handler; so does any error for the check-in, but
\* for recording the turn.
GivesUpAfter(w, call) == call = "start" \/ (w = Briefing /\ call # "record")

\* Store.Start: past the limit the chats idle longest go, never the new one.
NewId == ids + 1
Stale(others) == {others[k] : k \in Keep..Len(others)}
Recent(others) == IF Len(others) < Keep THEN others ELSE SubSeq(others, 1, Keep - 1)
Starts(w) ==
    /\ todo[w] # <<>> /\ Head(todo[w]).call = "start" /\ ids < MaxConversations
    /\ ids' = NewId
    /\ kept' = <<NewId>> \o Recent(kept)
    /\ messages' = [i \in Ids |-> IF i \in Stale(kept) THEN <<>> ELSE messages[i]]
    /\ \E t \in {"asked for", Head(todo[w]).title} : title' = [title EXCEPT ![NewId] = t]
    /\ chat' = [chat EXCEPT ![w].id = NewId, ![w].pending = <<>>]
    /\ did' = [did EXCEPT ![NewId] = RanIn(ToAppend(w))]
    /\ Called(w)
    /\ UNCHANGED <<turns, asked, failures, limits, shared, redone>>

\* Store.Append: the conversation's row first, so that a message for a
\* deleted one is not left behind; the chat then stops saving.
LeftBehind(i) == TRUE
Takes(i) == IsKept(i)
Appends(w) ==
    LET i == chat[w].id IN
    /\ todo[w] # <<>> /\ Head(todo[w]).call = "append"
    /\ IF Active(w) /\ Takes(i)
       THEN /\ messages' = [messages EXCEPT ![i] = Append(@, Head(todo[w]).m)]
            /\ kept' = IF IsKept(i) THEN <<i>> \o Without(kept, i) ELSE kept
            /\ Called(w) /\ UNCHANGED chat
       ELSE /\ chat' = [chat EXCEPT ![w].off = TRUE]
            /\ IF w = Briefing THEN todo' = [todo EXCEPT ![w] = <<>>] ELSE Called(w)
            /\ UNCHANGED <<messages, kept>>
    /\ UNCHANGED <<title, turns, ids, asked, failures, limits, shared, redone, did>>

\* Store.RecordTurn: the model and the tokens, whatever became of the turn.
Records(w) ==
    LET i == chat[w].id IN
    /\ todo[w] # <<>> /\ Head(todo[w]).call = "record"
    /\ turns' = IF Active(w) /\ IsKept(i) THEN [turns EXCEPT ![i] = @ + 1] ELSE turns
    /\ Called(w)
    /\ UNCHANGED <<kept, messages, title, chat, ids, asked, failures, limits, shared, redone, did>>

\* Store.DropReplies
Drops(w) ==
    LET i == chat[w].id IN
    /\ todo[w] # <<>> /\ Head(todo[w]).call = "drop"
    /\ messages' = [messages EXCEPT ![i] = UpToQuestion(@)]
    /\ redone' = redone \cup {i}
    /\ Called(w)
    /\ UNCHANGED <<kept, title, turns, chat, ids, asked, failures, limits, shared, did>>

\* A busy or failing database, or the 5 s of storeContext gone.
StoreFails(w) ==
    /\ todo[w] # <<>> /\ failures < limits.failures
    /\ failures' = failures + 1
    /\ IF GivesUpAfter(w, Head(todo[w]).call) THEN todo' = [todo EXCEPT ![w] = <<>>] ELSE Called(w)
    /\ UNCHANGED <<kept, messages, title, turns, chat, ids, asked, limits, shared, redone, did>>

\* DELETE one or all, and Rename, from the app's list.
Deletes(i) ==
    /\ kept' = Without(kept, i) /\ messages' = [messages EXCEPT ![i] = <<>>]
    /\ UNCHANGED <<title, turns, chat, todo, ids, asked, failures, limits, shared, redone, did>>
DeletesAll ==
    /\ kept # <<>>
    /\ kept' = <<>> /\ messages' = [i \in Ids |-> <<>>]
    /\ UNCHANGED <<title, turns, chat, todo, ids, asked, failures, limits, shared, redone, did>>
Renames(i) ==
    /\ title' = [title EXCEPT ![i] = "asked for"]
    /\ UNCHANGED <<kept, messages, turns, chat, todo, ids, asked, failures, limits, shared, redone, did>>
FromTheList == DeletesAll \/ \E i \in Listed : Deletes(i) \/ Renames(i)
-----------------------------------------------------------------------------
SavedNext ==
    \/ \E c \in Chats : Opens(c) \/ Leaves(c) \/ Asks(c) \/ Retries(c) \/ TurnEnds(c)
    \/ ChecksIn
    \/ \E w \in Writers : Starts(w) \/ Appends(w) \/ Records(w) \/ Drops(w) \/ StoreFails(w)
    \/ FromTheList

SavedSpec == SavedInit /\ [][SavedNext]_savedVars
-----------------------------------------------------------------------------
SavedTypeOK ==
    /\ ToSet(kept) \subseteq 1..ids /\ Len(kept) =< Keep /\ IsInjective(kept)
    /\ \A i \in Ids : \A m \in ToSet(messages[i]) : m.of \in 1..asked
    /\ \A w \in Writers : chat[w].id \in 0..ids

\* "Checked first, so a message for a deleted chat isn't left behind"
\* (store.go:196): whatever deletion, pruning and an open chat's saving do
\* to each other, messages are only kept with their conversation.
NothingLeftBehind == \A i \in Ids : IsKept(i) \/ messages[i] = <<>>

\* Where a conversation has hidden messages.
HiddenOf(i) == {k \in DOMAIN messages[i] : messages[i][k].hidden}

\* "Only the chat's very first message is the app's hidden context"
\* (saved.go:172), and a chat's title never comes from it: through pending
\* messages, failed starts and retries, at most a conversation's one hidden
\* question is.
OneIsHidden == \A i \in Ids :
    /\ \A k, l \in HiddenOf(i) : k = l
    /\ \A k \in HiddenOf(i) : messages[i][k].role = "user" /\ title[i] # "first words"

\* "one closed before the answer came would otherwise be saved with nothing
\* to show" (saved.go:48-49): unless a store call failed, each conversation
\* that nobody is still writing, or had its answer tried again, has something
\* the app shows.
HasSomethingToShow == failures = 0 => \A i \in ToSet(kept) \ redone :
    \/ \E w \in Writers : chat[w].id = i /\ todo[w] # <<>>
    \/ Shown(i) # {}

\* "Replies that proposed actions say what became of them, so a model carrying
\* the chat on knows what was done" (saved.go:85-87): while no store call has
\* failed, a conversation that is reopened tells, in a reply, of every turn
\* whose actions ran, unless the reply is still to be saved or two chats had
\* the conversation open: a retry in one drops the answer the other got.
ActionsAreTold == failures = 0 => \A i \in Ids :
    LET replies == {out \in ToSet(Replayable(messages[i])) : out.role = "assistant"}
        told == UNION {out.of : out \in replies}
        coming == UNION {RanIn(ToAppend(w)) : w \in {w \in Writers : chat[w].id = i}}
    IN  /\ RanIn(ToSet(messages[i])) \subseteq told
        /\ IsKept(i) /\ i \notin shared => did[i] \subseteq told \cup coming

\* A chat at rest shows what a later reopening would: retries, stops,
\* failures and replies of actions alone leave the transcript and the store
\* alike, while no store call has failed and no other chat has it open.
SavedAsShown == failures = 0 => \A c \in Chats :
    LET i == chat[c].id
        bare(ms) == [k \in DOMAIN ms |-> [ms[k] EXCEPT !.hidden = FALSE]]
    IN  AtRest(c) /\ i # None /\ IsKept(i) /\ i \notin shared
            => bare(messages[i]) = bare(chat[c].shown)

\* The store is whole: messages belong to a conversation that is kept, and
\* one at most is the app's hidden context.
StoreIsWhole == SavedTypeOK /\ NothingLeftBehind /\ OneIsHidden

\* A chat reopens as it was: with something to show, and with what its app
\* last saw.
ReopensAsItWas == HasSomethingToShow /\ SavedAsShown
=============================================================================
