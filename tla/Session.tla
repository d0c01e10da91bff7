------------------------------ MODULE Session ------------------------------
(***************************************************************************)
(* The accounts of a device (apps/mobile/src/lib/session-context.tsx): the *)
(* vault on the disk and in memory, the session, and the module caches of  *)
(* the account in use.  Every operation is a chain of awaits, and so is    *)
(* the boot; adding, switching and logging out take opRef, the others do   *)
(* not.                                                                    *)
(*                                                                         *)
(* Sessions are built and caches filled by libraries: an await of theirs   *)
(* ends well or fails.  Names, seeds, locks and certificates are left out. *)
(***************************************************************************)
EXTENDS Naturals, FiniteSets

CONSTANTS
    Accounts,
    NoAccount,
    Calls        \* chains that may be in progress at once

ASSUME SessionConstantsOK == NoAccount \notin Accounts

VARIABLES
    disk,        \* the vault on the disk
    vault,       \* vaultRef
    session,
    status,
    opRef,
    chain,       \* the operations in progress
    caches,      \* the accounts that the module caches have something of
    held,        \* history: accounts put into the vault, and not logged out of
    strays,      \* history: accounts a boot cached with another account in use or on its way
    torn         \* history: see Overlaps and HydrateFails

svars == <<disk, vault, session, status, opRef, chain, caches, held, strays, torn>>

Vaults == {v \in [accounts : SUBSET Accounts, active : Accounts \cup {NoAccount}] :
               IF v.accounts = {} THEN v.active = NoAccount ELSE v.active \in v.accounts}
NoVault == [accounts |-> {}, active |-> NoAccount]

Guarded == {"add", "switch", "logout"}

Chains == [kind : Guarded \cup {"none", "signIn", "unlock", "signOut", "boot"},
           stage : {"none", "building", "restoring", "saving", "saved", "hydrating",
                    "clearing", "cleared", "warming"},
           acct : Accounts \cup {NoAccount},    \* whose session is built
           seen : Vaults,                       \* the vault that the operation works on
           next : Vaults]                       \* the vault that it writes
NoChain == [kind |-> "none", stage |-> "none", acct |-> NoAccount, seen |-> NoVault, next |-> NoVault]

SessionInit ==
    /\ disk = NoVault /\ vault = NoVault
    /\ session = NoAccount /\ status = "loading" /\ opRef = FALSE
    /\ chain = [k \in Calls |-> NoChain]
    /\ caches = {} /\ held = {} /\ strays = {} /\ torn = FALSE

Running(kinds) == \E k \in Calls : chain[k].kind \in kinds

(* The filling of the caches that a boot leaves in the background writes nothing else. *)
Overlaps == \E k \in Calls : chain[k].stage \notin {"none", "warming"}

Starts(k, c) ==
    /\ chain[k] = NoChain
    /\ chain' = [chain EXCEPT ![k] = c]
    /\ torn' = (torn \/ Overlaps)

Proceeds(k, stage) == chain' = [chain EXCEPT ![k].stage = stage]

Ends(k) == chain' = [chain EXCEPT ![k] = NoChain]

----------------------------------------------------------------------------
(* Booting. *)

(* No vault is found: there is none, or the key store is not ready and says so. *)
BootEmpty ==
    /\ status = "loading" /\ ~Running({"boot"})
    /\ status' = "ready"
    /\ UNCHANGED <<disk, vault, session, opRef, chain, caches, held, strays, torn>>

BootLocked ==
    /\ status = "loading" /\ disk # NoVault
    /\ status' = "locked"
    /\ UNCHANGED <<disk, vault, session, opRef, chain, caches, held, strays, torn>>

BootReady(k) ==
    /\ status = "loading" /\ disk # NoVault
    /\ Starts(k, [NoChain EXCEPT !.kind = "boot", !.stage = "building", !.acct = disk.active])
    /\ vault' = disk
    /\ status' = "authenticating"
    /\ UNCHANGED <<disk, session, opRef, caches, held, strays>>

(* The session is there; the caches are filled in the background. *)
BootRestored(k) ==
    /\ chain[k].kind = "boot" /\ chain[k].stage = "building"
    /\ Proceeds(k, "warming")
    /\ session' = chain[k].acct
    /\ status' = "ready"
    /\ UNCHANGED <<disk, vault, opRef, caches, held, strays, torn>>

Warmed(k) ==
    /\ chain[k].stage = "warming"
    /\ Ends(k)
    /\ \/ caches' = caches \cup {chain[k].acct}
       \/ UNCHANGED caches                      \* it fails: logged, the session is kept
    /\ strays' = IF session = chain[k].acct /\ ~Overlaps THEN strays ELSE strays \cup {chain[k].acct}
    /\ UNCHANGED <<disk, vault, session, status, opRef, held, torn>>

----------------------------------------------------------------------------
(* The user's operations.  The overlay is over the screen while the status is
   "switching"; the screens of signing in and of unlocking stay in front until they
   are done, but for the button that forgets a locked vault. *)

InFront == Running({"signIn", "unlock"})

(* A faulty form: the operations do not exclude each other. *)
OpFreeAlways == TRUE

OpFree == opRef = FALSE

StartsOp(k, kind, acct, v) ==
    /\ OpFree
    /\ Starts(k, [NoChain EXCEPT !.kind = kind, !.stage = "building", !.acct = acct, !.seen = v])
    /\ opRef' = TRUE
    /\ status' = "switching"
    /\ UNCHANGED <<disk, vault, session, caches, held, strays>>

(* addAccount, addAccountWithRootIdentity and addLinkedDevice, which /pair offers
   without a session as well. *)
addAccount(k, a) ==
    /\ status \notin {"loading", "switching"} /\ ~InFront
    /\ StartsOp(k, "add", a, NoVault)

switchAccount(k, a) ==
    /\ status \notin {"loading", "switching"} /\ ~InFront
    /\ session # NoAccount /\ session # a
    /\ a \in vault.accounts
    /\ StartsOp(k, "switch", a, vault)

(* The account in use is logged out; another one of the vault takes over. *)
logoutAccount(k, a) ==
    /\ status \notin {"loading", "switching"} /\ ~InFront
    /\ session # NoAccount
    /\ a \in vault.accounts \ {session}
    /\ StartsOp(k, "logout", a, [vault EXCEPT !.accounts = @ \ {session}, !.active = a])

(* The last account is logged out: no overlay. *)
logoutLast(k) ==
    /\ status \notin {"loading", "switching"} /\ ~InFront
    /\ OpFree
    /\ session # NoAccount /\ vault # NoVault /\ vault.accounts \subseteq {session}
    /\ Starts(k, [NoChain EXCEPT !.kind = "logout", !.stage = "clearing"])
    /\ opRef' = TRUE
    /\ UNCHANGED <<disk, vault, session, status, caches, held, strays>>

(* signIn and signInWithRootIdentity, from the onboarding screens, which nobody fills
   in while an operation of theirs is under way. *)
signIn(k, a) ==
    /\ session = NoAccount /\ status \in {"ready", "locked"} /\ ~InFront /\ ~Running(Guarded)
    /\ Starts(k, [NoChain EXCEPT !.kind = "signIn", !.stage = "building", !.acct = a])
    /\ UNCHANGED <<disk, vault, session, status, opRef, caches, held, strays>>

unlock(k) ==
    /\ status = "locked" /\ ~InFront
    /\ Starts(k, [NoChain EXCEPT !.kind = "unlock", !.stage = "building"])
    /\ UNCHANGED <<disk, vault, session, status, opRef, caches, held, strays>>

fullSignOut(k) ==
    /\ ~Running({"signOut", "signIn"})
    /\ \/ status = "locked"
       \/ session # NoAccount /\ status # "switching" /\ Cardinality(vault.accounts) > 1
    /\ Starts(k, [NoChain EXCEPT !.kind = "signOut", !.stage = "clearing"])
    /\ UNCHANGED <<disk, vault, session, status, opRef, caches, held, strays>>

----------------------------------------------------------------------------
(* What their awaits bring. *)

(* A faulty form: a failure leaves opRef taken. *)
NoFinally(k) == UNCHANGED <<opRef, status>>

(* The `finally' of the guarded operations. *)
Finally(k) ==
    IF chain[k].kind \in Guarded THEN opRef' = FALSE /\ status' = "ready" ELSE UNCHANGED <<opRef, status>>

(* The vault to be written: adding takes it up from memory now, switching and
   logging out from when they began, and signing in starts afresh. *)
NextVault(c) ==
    CASE c.kind = "add" -> [accounts |-> vault.accounts \cup {c.acct}, active |-> c.acct]
      [] c.kind = "signIn" -> [accounts |-> {c.acct}, active |-> c.acct]
      [] OTHER -> [c.seen EXCEPT !.active = c.acct]

Built(k) ==
    /\ chain[k].stage = "building" /\ chain[k].kind \in Guarded \cup {"signIn"}
    /\ chain' = [chain EXCEPT ![k].stage = "saving", ![k].next = NextVault(chain[k]),
                              ![k].seen = IF chain[k].kind = "add" THEN vault ELSE @]
    /\ UNCHANGED <<disk, vault, session, status, opRef, caches, held, strays, torn>>

(* unlockVault answers with what is on the disk. *)
Opened(k) ==
    /\ chain[k].kind = "unlock" /\ chain[k].stage = "building"
    /\ disk # NoVault
    /\ vault' = disk
    /\ chain' = [chain EXCEPT ![k].stage = "restoring", ![k].acct = disk.active]
    /\ UNCHANGED <<disk, session, status, opRef, caches, held, strays, torn>>

Restored(k) ==
    /\ chain[k].stage = "restoring"
    /\ Proceeds(k, "hydrating")
    /\ UNCHANGED <<disk, vault, session, status, opRef, caches, held, strays, torn>>

(* Building, saving or clearing fails: nothing has been changed. *)
Fails(k) ==
    /\ chain[k].stage \in {"building", "restoring", "saving", "clearing"}
    /\ Ends(k)
    /\ IF chain[k].kind = "boot" THEN status' = "ready" /\ UNCHANGED opRef ELSE Finally(k)
    /\ UNCHANGED <<disk, vault, session, caches, held, strays, torn>>

(* A vault that was not in memory when the write was prepared is replaced whole. *)
Written(k) ==
    /\ chain[k].stage = "saving"
    /\ Proceeds(k, "saved")
    /\ disk' = chain[k].next
    /\ held' = CASE chain[k].kind \in {"add", "signIn"} ->
                      (IF chain[k].seen = NoVault THEN {} ELSE held) \cup {chain[k].acct}
                 [] chain[k].kind = "logout" -> held \cap chain[k].seen.accounts
                 [] OTHER -> held
    /\ UNCHANGED <<vault, session, status, opRef, caches, strays, torn>>

(* A faulty form: what the caches have is kept. *)
Unchanged(c) == c

(* resetAccountScopedState: every cache is dropped. *)
Reset(c) == {}

Committed(k) ==
    /\ chain[k].stage = "saved"
    /\ Proceeds(k, "hydrating")
    /\ vault' = chain[k].next
    /\ IF chain[k].kind = "signIn" THEN UNCHANGED <<caches, strays>>
                                   ELSE caches' = Reset(caches) /\ strays' = {}
    /\ UNCHANGED <<disk, session, status, opRef, held, torn>>

(* A faulty form: the session stays as it was. *)
KeepsSession(a) == session

BecomesSession(a) == a

Hydrated(k) ==
    /\ chain[k].stage = "hydrating"
    /\ Ends(k)
    /\ caches' = caches \cup {chain[k].acct}
    /\ session' = BecomesSession(chain[k].acct)
    /\ status' = "ready"
    /\ opRef' = IF chain[k].kind \in Guarded THEN FALSE ELSE opRef
    /\ UNCHANGED <<disk, vault, held, strays, torn>>

(* The caches may have been filled in part; the session stays the old one while the
   vault is the new one. *)
HydrateFails(k) ==
    /\ chain[k].stage = "hydrating"
    /\ Ends(k)
    /\ caches' \in {caches, caches \cup {chain[k].acct}}
    /\ torn' = TRUE
    /\ Finally(k)
    /\ UNCHANGED <<disk, vault, session, held, strays>>

Cleared(k) ==
    /\ chain[k].stage = "clearing"
    /\ Proceeds(k, "cleared")
    /\ disk' = NoVault
    /\ held' = {}
    /\ UNCHANGED <<vault, session, status, opRef, caches, strays, torn>>

SignedOut(k) ==
    /\ chain[k].stage = "cleared"
    /\ Ends(k)
    /\ vault' = NoVault
    /\ session' = NoAccount
    /\ caches' = Reset(caches) /\ strays' = {}
    /\ status' = "ready"
    /\ opRef' = IF chain[k].kind \in Guarded THEN FALSE ELSE opRef
    /\ UNCHANGED <<disk, held, torn>>

(* The app dies, at any await. *)
AppDies ==
    /\ vault' = NoVault /\ session' = NoAccount /\ status' = "loading" /\ opRef' = FALSE
    /\ chain' = [k \in Calls |-> NoChain]
    /\ caches' = {} /\ strays' = {} /\ torn' = FALSE
    /\ UNCHANGED <<disk, held>>

SessionNext ==
    \/ BootEmpty \/ BootLocked \/ AppDies
    \/ \E k \in Calls :
          \/ BootReady(k) \/ BootRestored(k) \/ Warmed(k)
          \/ \E a \in Accounts : addAccount(k, a) \/ switchAccount(k, a) \/ logoutAccount(k, a) \/ signIn(k, a)
          \/ logoutLast(k) \/ unlock(k) \/ fullSignOut(k)
          \/ Built(k) \/ Opened(k) \/ Restored(k) \/ Fails(k) \/ Written(k) \/ Committed(k)
          \/ Hydrated(k) \/ HydrateFails(k) \/ Cleared(k) \/ SignedOut(k)

SessionSpec == SessionInit /\ [][SessionNext]_svars

----------------------------------------------------------------------------

SessionTypeOK ==
    /\ {disk, vault} \subseteq Vaults
    /\ session \in Accounts \cup {NoAccount}
    /\ status \in {"loading", "authenticating", "locked", "switching", "ready"}
    /\ {opRef, torn} \subseteq BOOLEAN
    /\ chain \in [Calls -> Chains]
    /\ {caches, held, strays} \subseteq SUBSET Accounts

(* "so two overlapping ops can't read a stale vault and clobber each other's
   accounts" (session-context.tsx:226): an account that was put into the vault is in
   the vault on the disk until it is logged out of, at every await of every
   operation and over deaths.  A write that was prepared while the vault was not in
   memory (a sign-in, or /pair on a locked device) starts the count afresh. *)
NoneClobbered == held \subseteq disk.accounts

(* When everything has settled, the session is that of the vault's active account
   and the vault is the one on the disk, provided that no two operations overlapped
   without opRef and that no filling of the caches failed behind a written vault. *)
SessionIsActive ==
    ~Overlaps /\ ~torn /\ session # NoAccount =>
        vault = disk /\ session = vault.active

(* "so no data bleeds across accounts" (session-context.tsx:132): when everything
   has settled, with the same provisos, the caches have nothing but what is of the
   session's account, and what the background filling of a boot brought for an
   account that was no longer in use, or about to be, when it ended. *)
NoBleeding == ~Overlaps /\ ~torn => caches \ strays \subseteq {session}

(* "Always leave 'switching' (clears the overlay)" (session-context.tsx:428): behind
   the overlay an operation is at work, and opRef is taken by one that is, so that
   neither stays for good, whatever fails or overlaps. *)
OverlayIsLifted ==
    /\ status = "switching" => opRef
    /\ opRef <=> Running(Guarded)
=============================================================================
