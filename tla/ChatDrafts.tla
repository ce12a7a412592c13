----------------------------- MODULE ChatDrafts -----------------------------
(***************************************************************************)
(* The composer page (web/routes/strategy.py): each session's list of      *)
(* draft blocks, and the conversations in which a model edits that list or *)
(* a custom block; the backtest page's "refine" conversation follows the   *)
(* same pattern.  web/shared.py's ChatStore keeps conversations with a     *)
(* time to live and a capacity.  A turn copies the conversation, awaits    *)
(* the model without a lock, and commits to the live conversation.         *)
(***************************************************************************)
EXTENDS Naturals, Sequences, FiniteSets, SequencesExt

CONSTANTS
  Users,        \* browser sessions
  MaxRequests,  \* bound: requests made over a behaviour
  ChatCap,      \* max_entries of the chat store
  DraftCap      \* _MAX_DRAFT_SESSIONS

ASSUME ChatBoundsAssumption ==
  MaxRequests \in Nat /\ ChatCap \in Nat \ {0} /\ DraftCap \in Nat \ {0}

Requests == 1..MaxRequests

(* A list of blocks is the set of the requests whose edits are in it.  A    *)
(* conversation is named for the request that opened it; chats are kept in  *)
(* the order of their stamps.                                               *)
VARIABLES
  request,   \* what each request is doing
  asked,     \* requests made so far
  chats,     \* [id, turns, blocks] of the conversations in the store
  drafts     \* [user, blocks] in insertion order

chatVars == <<request, asked, chats, drafts>>

Unasked == [pc |-> "none", user |-> CHOOSE u \in Users : TRUE, chat |-> 0,
            turns |-> <<>>, blocks |-> {}]

ChatInit ==
  /\ request = [r \in Requests |-> Unasked]
  /\ asked = 0 /\ chats = <<>> /\ drafts = <<>>

Chat(id) == {c \in ToSet(chats) : c.id = id}
DraftsOf(u) == {d \in ToSet(drafts) : d.user = u}

-----------------------------------------------------------------------------
(* session_drafts makes room for a session it does not know; an assignment  *)
(* to _DRAFTS[sid] does not.                                                *)
Touched(u) ==
  IF DraftsOf(u) # {} THEN drafts
  ELSE Append(IF Len(drafts) >= DraftCap THEN Tail(drafts) ELSE drafts,
              [user |-> u, blocks |-> {}])
Assigned(q, u, blocks) ==
  IF \E d \in ToSet(q) : d.user = u
  THEN [i \in DOMAIN q |-> IF q[i].user = u THEN [q[i] EXCEPT !.blocks = blocks] ELSE q[i]]
  ELSE Append(q, [user |-> u, blocks |-> blocks])
TouchedBlocks(u) == UNION {d.blocks : d \in DraftsOf(u)}

Ask(r) == r = asked + 1 /\ r \in Requests /\ asked' = r
Done(r, u) == request' = [request EXCEPT ![r] = [Unasked EXCEPT !.pc = "answered", !.user = u]]

AddDraft(r, u) ==
  /\ Ask(r) /\ Done(r, u)
  /\ drafts' = Assigned(Touched(u), u, TouchedBlocks(u) \cup {r})
  /\ UNCHANGED chats

DeleteDraft(r, u) ==
  /\ Ask(r) /\ Done(r, u)
  /\ \/ drafts' = Touched(u)
     \/ \E b \in TouchedBlocks(u) : drafts' = Assigned(drafts, u, TouchedBlocks(u) \ {b})
  /\ UNCHANGED chats

(* suggest and edit_spec put a list of their own in the place of the drafts.*)
ReplaceDrafts(r, u) ==
  /\ Ask(r) /\ Done(r, u)
  /\ drafts' = Assigned(drafts, u, {r})
  /\ UNCHANGED chats

(* Saving the strategy empties the list.                                    *)
SaveStrategy(r, u) ==
  /\ Ask(r) /\ Done(r, u)
  /\ TouchedBlocks(u) # {}
  /\ drafts' = Assigned(Touched(u), u, {})
  /\ UNCHANGED chats

-----------------------------------------------------------------------------
(* Opening a conversation and taking a turn await the model: what was read  *)
(* before is carried by the request.                                        *)
Waiting(r, u, id, turns, blocks) ==
  request' = [request EXCEPT ![r] =
    [pc |-> "asking", user |-> u, chat |-> id, turns |-> turns, blocks |-> blocks]]

DraftsChatNew(r, u) ==
  /\ Ask(r)
  /\ TouchedBlocks(u) # {}
  /\ Waiting(r, u, r, <<>>, TouchedBlocks(u))
  /\ UNCHANGED <<chats, drafts>>

Turn(r, u) ==
  /\ Ask(r)
  /\ \E c \in ToSet(chats) : Waiting(r, u, c.id, c.turns, c.blocks)
  /\ UNCHANGED <<chats, drafts>>

(* _evict_locked: the conversations past their time to live, a prefix in    *)
(* the order of stamps, then the oldest while there are too many.           *)
(* Mutant: only the time to live is looked at.                              *)
KeptAll(q) == {SubSeq(q, n + 1, Len(q)) : n \in 0..(Len(q) - 1)}
Kept(q) ==
  {SubSeq(q, n + 1, Len(q)) : n \in {k \in 0..(Len(q) - 1) : Len(q) - k <= ChatCap}}

(* ChatStore.new stamps the conversation that the model's first answer      *)
(* opens.  The answer edits the blocks, or does not.                        *)
Edits(r) == {request[r].blocks, request[r].blocks \cup {r}}
OpenChat(r) ==
  /\ request[r].pc = "asking" /\ request[r].chat = r
  /\ \E blocks \in Edits(r) :
       chats' \in Kept(Append(chats, [id |-> r, turns |-> <<r>>, blocks |-> blocks]))
  /\ Done(r, request[r].user)
  /\ UNCHANGED <<asked, drafts>>

(* ChatStore.commit fetches the conversation again.                         *)
(* Mutant: the turn writes back the messages it read before the call.       *)
MutatedCopy(c, r, blocks) ==
  [c EXCEPT !.turns = Append(request[r].turns, r), !.blocks = blocks]
Mutated(c, r, blocks) == [c EXCEPT !.turns = Append(@, r), !.blocks = blocks]
CommitTurn(r) ==
  /\ request[r].pc = "asking" /\ request[r].chat # r
  /\ \E i \in DOMAIN chats :
       /\ chats[i].id = request[r].chat
       /\ \E blocks \in {chats[i].blocks, request[r].blocks \cup {r}} :
            chats' \in Kept(Append(RemoveAt(chats, i), Mutated(chats[i], r, blocks)))
  /\ Done(r, request[r].user)
  /\ UNCHANGED <<asked, drafts>>

(* Mutant: the answer is stored under the id whether or not it is there.    *)
TurnRevives(r) ==
  /\ request[r].pc = "asking" /\ request[r].chat # r /\ Chat(request[r].chat) = {}
  /\ chats' \in Kept(Append(chats, [id |-> request[r].chat, blocks |-> request[r].blocks,
                                    turns |-> Append(request[r].turns, r)]))
  /\ Done(r, request[r].user)
  /\ UNCHANGED <<asked, drafts>>
TurnExpired(r) ==
  /\ request[r].pc = "asking" /\ request[r].chat # r
  /\ Chat(request[r].chat) = {}
  /\ Done(r, request[r].user)
  /\ UNCHANGED <<asked, chats, drafts>>

(* A model call that raises ends its request.                               *)
AskFails(r) ==
  /\ request[r].pc = "asking"
  /\ Done(r, request[r].user)
  /\ UNCHANGED <<asked, chats, drafts>>

(* drafts_chat_apply: the list of the conversation becomes the drafts of    *)
(* the session that asks.                                                   *)
ApplyChat(r, u) ==
  /\ Ask(r) /\ Done(r, u)
  /\ \E c \in ToSet(chats) : drafts' = Assigned(drafts, u, c.blocks)
  /\ UNCHANGED chats

Answer(r) == OpenChat(r) \/ CommitTurn(r) \/ TurnExpired(r) \/ AskFails(r)

ChatNext ==
  \E r \in Requests :
    \/ \E u \in Users :
         \/ AddDraft(r, u) \/ DeleteDraft(r, u) \/ ReplaceDrafts(r, u)
         \/ SaveStrategy(r, u) \/ DraftsChatNew(r, u) \/ Turn(r, u) \/ ApplyChat(r, u)
    \/ Answer(r)

ChatSpec == ChatInit /\ [][ChatNext]_chatVars
-----------------------------------------------------------------------------
(* Types; the chat store never exceeds its capacity.                        *)
ChatTypeOK ==
  /\ asked \in 0..MaxRequests
  /\ \A r \in Requests :
       /\ request[r].pc \in {"none", "asking", "answered"} /\ request[r].user \in Users
       /\ request[r].chat \in 0..asked /\ request[r].blocks \subseteq 1..asked
  /\ Len(chats) <= ChatCap
  /\ \A i \in DOMAIN chats : chats[i].id \in 1..asked /\ chats[i].blocks \subseteq 1..asked
  /\ IsInjective([i \in DOMAIN chats |-> chats[i].id])
  /\ IsInjective([i \in DOMAIN drafts |-> drafts[i].user])

(* Turns that overlap, or outlast an eviction, lose nothing of what was     *)
(* said: the messages of a conversation only ever grow by one turn.         *)
NothingSaidIsLost ==
  [][\A c \in ToSet(chats), d \in ToSet(chats') :
       c.id = d.id /\ c # d => \E r \in Requests : d.turns = Append(c.turns, r)]_chatVars

(* A conversation that expired or was evicted is not brought back by a turn *)
(* that was under way.                                                      *)
ExpiredStaysGone ==
  [][\A d \in ToSet(chats') :
       Chat(d.id) = {} => request[d.id].pc = "asking" /\ d.turns = <<d.id>>]_chatVars
=============================================================================
