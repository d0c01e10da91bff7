------------------------------ MODULE Autosave ------------------------------
(***************************************************************************)
(* Editing in place without a save button: the field's hook                *)
(* (apps/mobile/src/lib/use-autosave.ts) and the gate that decides what is *)
(* committed (packages/sdk/src/messaging/autosave.ts).  Typing arms a      *)
(* timer; the timer, blurring the field and closing it commit.             *)
(***************************************************************************)
CONSTANTS
    Texts,     \* what may be in the field
    Blank,     \* text of whitespace alone
    NoText

ASSUME AutosaveConstantsOK == Blank \in Texts /\ NoText \notin Texts

VARIABLES
    commitEmpty,   \* the field's option: a blank text means something (a block is deleted)
    open,          \* the field is mounted
    value,         \* valueRef
    committed,     \* committedRef
    finalized,     \* finalizedRef
    timer,         \* armed
    commits        \* history: of this mount, the text before the last, the last, and whether that was final

nvars == <<commitEmpty, open, value, committed, finalized, timer, commits>>

NoCommits == [before |-> NoText, last |-> NoText, final |-> FALSE]

AutosaveInit ==
    /\ commitEmpty \in BOOLEAN
    /\ open = FALSE /\ timer = FALSE /\ finalized = FALSE
    /\ value = NoText /\ committed = NoText
    /\ commits = NoCommits

(* The text is read once: what a merge or a pull does to it meanwhile stays out. *)
Mount(text) ==
    /\ open = FALSE
    /\ open' = TRUE
    /\ value' = text /\ committed' = text
    /\ finalized' = FALSE
    /\ commits' = NoCommits
    /\ UNCHANGED <<commitEmpty, timer>>

onChangeText(text) ==
    /\ open = TRUE
    /\ value' = text
    /\ timer' = TRUE
    /\ UNCHANGED <<commitEmpty, open, committed, finalized, commits>>

(* A faulty form: whether the blank text was dealt with is not asked. *)
CommitsBlankAgain(final) ==
    IF value = Blank THEN final /\ commitEmpty ELSE value # committed

shouldCommit(final) ==
    IF value = Blank THEN final /\ commitEmpty /\ ~(value = committed /\ finalized)
    ELSE value # committed

commit(final) ==
    IF shouldCommit(final)
    THEN /\ committed' = value
         /\ finalized' = final
         /\ commits' = [before |-> commits.last, last |-> value, final |-> final]
    ELSE UNCHANGED <<committed, finalized, commits>>

Tick ==
    /\ timer = TRUE
    /\ timer' = FALSE
    /\ commit(FALSE)
    /\ UNCHANGED <<commitEmpty, open, value>>

flush ==
    /\ open = TRUE
    /\ timer' = FALSE
    /\ commit(TRUE)

(* Blur, or the return key. *)
Blur == flush /\ UNCHANGED <<commitEmpty, open, value>>

Unmount == flush /\ open' = FALSE /\ UNCHANGED <<commitEmpty, value>>

AutosaveNext == (\E text \in Texts : Mount(text) \/ onChangeText(text)) \/ Tick \/ Blur \/ Unmount

AutosaveSpec == AutosaveInit /\ [][AutosaveNext]_nvars

----------------------------------------------------------------------------

AutosaveTypeOK ==
    /\ {commitEmpty, open, finalized, timer} \subseteq BOOLEAN
    /\ {value, committed} \subseteq Texts \cup {NoText}
    /\ commits \in [before : Texts \cup {NoText}, last : Texts \cup {NoText}, final : BOOLEAN]

(* "an append-log only ever gains distinct states" and "the unmount flush is the
   real durability guarantee" (use-autosave.ts:47, :51): no two commits running are
   of the same text, whatever timers, blurs and the closing fire after one another;
   a blank one is final and allowed; and a field that is closed has committed its
   last text, unless that was blank and not to be kept. *)
CommitsEachOnce ==
    /\ commits.last # NoText => commits.before # commits.last
    /\ commits.last = Blank => commits.final /\ commitEmpty
    /\ ~open /\ value \notin {NoText, Blank} => committed = value
    /\ ~open /\ value = Blank /\ commitEmpty => commits.last = Blank
=============================================================================
