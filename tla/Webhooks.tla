------------------------------ MODULE Webhooks ------------------------------
(***************************************************************************)
(* The webhooks of a space: owners mint and revoke them from their devices *)
(* (packages/sdk/src/starfish/webhooks.ts), external systems post with     *)
(* their tokens, and the server checks, appends and publishes              *)
(* (apps/server/src/webhook.ts).  Both sides work on what they read before *)
(* their awaits.                                                           *)
(*                                                                         *)
(* A webhook has an id and a token of its own, both random and both used   *)
(* once, and one room for life: Hooks stand for all three.  The hash of a  *)
(* registry document stands for its content.                               *)
(***************************************************************************)
EXTENDS Naturals, FiniteSets

CONSTANTS
    Hooks,       \* webhooks that may be minted
    Owners,      \* devices of the space's owner
    Posts,       \* requests of external systems
    NoHook,
    MaxHooks     \* MAX_WEBHOOKS_PER_SPACE

ASSUME WebhooksConstantsOK ==
    /\ NoHook \notin Hooks
    /\ MaxHooks \in Nat

VARIABLES
    registry,    \* the webhooks of the registry document
    edit,        \* the edit in progress on each device
    minted,      \* history: webhooks whose creation was written
    revoked,     \* history: webhooks whose removal was written
    post,        \* the requests in progress
    log,         \* the requests whose message is in a room's log
    published    \* the requests whose change event was published

wvars == <<registry, edit, minted, revoked, post, log, published>>

Edits == [pc : {"idle", "writing"}, adds : Hooks \cup {NoHook}, drops : Hooks \cup {NoHook},
          seen : SUBSET Hooks]
NoEdit == [pc |-> "idle", adds |-> NoHook, drops |-> NoHook, seen |-> {}]

(* `late' is history: the webhook's removal had been written before the request. *)
Requests == [pc : {"new", "reading", "verifying", "appending", "publishing", "done"},
             hook : Hooks \cup {NoHook}, token : Hooks \cup {NoHook}, late : BOOLEAN]
NewRequest == [pc |-> "new", hook |-> NoHook, token |-> NoHook, late |-> FALSE]

WebhooksInit ==
    /\ registry = {} /\ minted = {} /\ revoked = {}
    /\ edit = [o \in Owners |-> NoEdit]
    /\ post = [p \in Posts |-> NewRequest]
    /\ log = {} /\ published = {}

----------------------------------------------------------------------------
(* The owner's devices. *)

(* A faulty form: one more than the cap. *)
RoomForOver(seen) == Cardinality(seen) <= MaxHooks

RoomFor(seen) == Cardinality(seen) < MaxHooks

(* The registry is read, and a webhook minted if the cap allows; the id has not
   been used by anyone, and it is given away only here. *)
Drawn == minted \cup {edit[o].adds : o \in Owners}

createWebhook(o, h) ==
    /\ edit[o] = NoEdit
    /\ RoomFor(registry)
    /\ h \notin Drawn
    /\ edit' = [edit EXCEPT ![o] = [NoEdit EXCEPT !.pc = "writing", !.adds = h, !.seen = registry]]
    /\ UNCHANGED <<registry, minted, revoked, post, log, published>>

removeWebhook(o, h) ==
    /\ edit[o] = NoEdit
    /\ h \in registry
    /\ edit' = [edit EXCEPT ![o] = [NoEdit EXCEPT !.pc = "writing", !.drops = h, !.seen = registry]]
    /\ UNCHANGED <<registry, minted, revoked, post, log, published>>

(* A faulty form: the write does not say what it was based on. *)
AnyBase(seen) == TRUE

(* The server takes a write that is based on the document as it is. *)
SameBase(seen) == seen = registry

Edited(e) == (e.seen \cup ({e.adds} \cap Hooks)) \ {e.drops}

(* The write is taken; whether the answer gets through makes no difference here. *)
EditWritten(o) ==
    /\ edit[o].pc = "writing"
    /\ SameBase(edit[o].seen)
    /\ registry' = Edited(edit[o])
    /\ minted' = minted \cup ({edit[o].adds} \cap Hooks)
    /\ revoked' = revoked \cup ({edit[o].drops} \cap Hooks)
    /\ edit' = [edit EXCEPT ![o] = NoEdit]
    /\ UNCHANGED <<post, log, published>>

(* It conflicts, is not delivered, or the device dies: reported as failed. *)
EditFails(o) ==
    /\ edit[o].pc = "writing"
    /\ edit' = [edit EXCEPT ![o] = NoEdit]
    /\ UNCHANGED <<registry, minted, revoked, post, log, published>>

----------------------------------------------------------------------------
(* The route: every stage ends in an await. *)

Goes(p, pc) == post' = [post EXCEPT ![p].pc = pc]

(* A well-formed request names a webhook that was once minted, and some token. *)
Posted(p, h, t) ==
    /\ post[p].pc = "new"
    /\ {h, t} \subseteq minted
    /\ post' = [post EXCEPT ![p] = [pc |-> "reading", hook |-> h, token |-> t,
                                    late |-> h \in revoked]]
    /\ UNCHANGED <<registry, edit, minted, revoked, log, published>>

(* The registry is read: without an entry the request is refused (404). *)
EntryRead(p) ==
    /\ post[p].pc = "reading"
    /\ Goes(p, IF post[p].hook \in registry THEN "verifying" ELSE "done")
    /\ UNCHANGED <<registry, edit, minted, revoked, log, published>>

(* The token's hash is compared with that of the entry that was read (401). *)
TokenHashed(p) ==
    /\ post[p].pc = "verifying"
    /\ Goes(p, IF post[p].token = post[p].hook THEN "appending" ELSE "done")
    /\ UNCHANGED <<registry, edit, minted, revoked, log, published>>

Appended(p) ==
    /\ post[p].pc = "appending"
    /\ log' = log \cup {p}
    /\ Goes(p, "publishing")
    /\ UNCHANGED <<registry, edit, minted, revoked, published>>

(* The append conflicts (409). *)
AppendConflicts(p) ==
    /\ post[p].pc = "appending"
    /\ Goes(p, "done")
    /\ UNCHANGED <<registry, edit, minted, revoked, log, published>>

(* The change event is handed to the queue and not waited for: it is published,
   or the failure is logged, and the caller has its answer either way. *)
publishChange(p) ==
    /\ post[p].pc = "publishing"
    /\ Goes(p, "done")
    /\ published' \in {published, published \cup {p}}
    /\ UNCHANGED <<registry, edit, minted, revoked, log>>

(* The server dies: the requests in progress end without an answer. *)
ServerDies ==
    /\ post' = [p \in Posts |-> IF post[p].pc = "new" THEN post[p] ELSE [post[p] EXCEPT !.pc = "done"]]
    /\ UNCHANGED <<registry, edit, minted, revoked, log, published>>

WebhooksNext ==
    \/ \E o \in Owners : \/ \E h \in Hooks : createWebhook(o, h) \/ removeWebhook(o, h)
                         \/ EditWritten(o) \/ EditFails(o)
    \/ \E p \in Posts : \/ \E h, t \in Hooks : Posted(p, h, t)
                        \/ EntryRead(p) \/ TokenHashed(p)
                        \/ Appended(p) \/ AppendConflicts(p) \/ publishChange(p)
    \/ ServerDies

WebhooksSpec == WebhooksInit /\ [][WebhooksNext]_wvars

----------------------------------------------------------------------------

WebhooksTypeOK ==
    /\ registry \subseteq Hooks /\ minted \subseteq Hooks /\ revoked \subseteq Hooks
    /\ edit \in [Owners -> Edits]
    /\ post \in [Posts -> Requests]
    /\ log \subseteq Posts /\ published \subseteq Posts

(* "Concurrent edits conflict rather than clobber" (webhooks.ts:151), also at the
   cap: the registry holds the webhooks minted and not revoked, and no more than a
   space may have, whatever devices edit it at the same time. *)
RegistryExact ==
    /\ registry = minted \ revoked
    /\ Cardinality(registry) <= MaxHooks

(* "Revoking removes its hash, so the token can never be used again"
   (apps/server/docs/inbound-webhooks.md:42): no message in a log comes from a
   request that began after its webhook was revoked, or without the token of its
   webhook, whatever owners have written since, and every change event is that of a
   message that a reader who pulls on it will find (webhook.ts:133, :164).  A request
   that had begun may still be taken. *)
RevokedIsRefused ==
    /\ \A p \in log : ~post[p].late /\ post[p].token = post[p].hook
    /\ published \subseteq log
=============================================================================
