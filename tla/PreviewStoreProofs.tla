------------------------- MODULE PreviewStoreProofs -------------------------
(***************************************************************************)
(* PreviewStore, for any number of previews, attempts, generations and     *)
(* faults: its types, that one preview of an action is in doubt at a time, *)
(* that what is confirmed is in the ledger and stays, that a doubt goes    *)
(* only with the attempt that holds it, and that one draft makes one object. *)
(***************************************************************************)
EXTENDS PreviewStore, TLAPS

-----------------------------------------------------------------------------
(* The invariant.  c are the confirmations and w is the ledger a table of  *)
(* previews is read with: a lease is held by an attempt that has begun and *)
(* that, while it runs, works on this very draft; a confirmed record is in *)
(* the ledger.                                                             *)

Drafted == {"ready", "running", "unknown", "done"}

RecordOK(p, f, c, w) ==
    /\ f \in Record
    /\ f.status \in Drafted => f.draft \in Drafts
    /\ f.attempt # None =>
        /\ f.status = "running" /\ c[f.attempt].pc # "off"
        /\ c[f.attempt].pc # "over" =>
                c[f.attempt].preview = p /\ c[f.attempt].draft = f.draft
    /\ f.status = "done" =>
        f.object \in Object /\ w[p] = [object |-> f.object, draft |-> f.draft]

TableOK(t, c, w) ==
    /\ t = [p \in Previews |-> t[p]]
    /\ \A p \in Previews : RecordOK(p, t[p], c, w)

Alone(t) ==
    \A p, q \in Previews : SameAction(p, q) /\ InDoubt(t[p]) /\ InDoubt(t[q]) => p = q

FileOK == TableOK(file, confirming, audit) /\ Alone(file)

\* A confirmation under way has a draft; one that has written knows the object,
\* and one that will report it has it in the ledger.
ConfirmingOK ==
    /\ confirming \in [Attempts -> Confirmation]
    /\ \A a \in Attempts :
        /\ confirming[a].pc \notin {"off", "over"} =>
            confirming[a].preview \in Previews /\ confirming[a].draft \in Drafts
        /\ confirming[a].pc = "audit" => confirming[a].object \in Object
        /\ confirming[a].pc = "finish" /\ confirming[a].object # None =>
            audit[confirming[a].preview] = WriteOf(a)

RestOK ==
    /\ drafts \in [Previews -> 0..MaxDrafts]
    /\ generating \in [Generators -> Generation]
    /\ \A g \in Generators : generating[g].pc # "off" => generating[g].preview \in Previews
    /\ audit \in [Previews -> Write \cup {None}]
    /\ objects \subseteq Object /\ seen \subseteq objects /\ tracked \subseteq objects
    /\ crashes \in 0..MaxCrashes
    /\ faults \in 0..MaxFaults

StoreInv == FileOK /\ ConfirmingOK /\ RestOK

-----------------------------------------------------------------------------
(* Records *)

\* A record that nobody holds and nothing confirms is sound whoever reads it.
LEMMA SimpleRecords ==
  ASSUME NEW p \in Previews, NEW c, NEW w
  PROVE  \A f \in {Absent, Reserved} \cup {Ready(n) : n \in Drafts} :
            RecordOK(p, f, c, w) /\ ~InDoubt(f) /\ f.attempt = None
<1>1. Absent \in Record /\ Reserved \in Record
  <2>1. Absent \in Record
    <3>1. 0 \in 0..MaxDrafts
      BY PreviewConstants
    <3>2. QED
      BY <3>1 DEF Absent, Record
  <2>2. [Absent EXCEPT !.status = "generating", !.live = TRUE] \in Record
    BY <2>1 DEF Record
  <2>3. QED
    BY <2>1, <2>2 DEF Reserved
<1>2. ASSUME NEW n \in Drafts PROVE Ready(n) \in Record
  <2>1. n \in 0..MaxDrafts
    BY PreviewConstants DEF Drafts
  <2>2. [Absent EXCEPT !.status = "ready", !.draft = n] \in Record
    BY <1>1, <2>1 DEF Record
  <2>3. QED
    BY <2>2 DEF Ready
<1>3. /\ Absent.status = "absent" /\ Absent.attempt = None
      /\ Reserved.status = "generating" /\ Reserved.attempt = None
  BY DEF Absent, Reserved
<1>4. ASSUME NEW n \in Drafts
      PROVE  Ready(n).status = "ready" /\ Ready(n).attempt = None /\ Ready(n).draft = n
  BY DEF Ready, Absent
<1>5. QED
  BY <1>1, <1>2, <1>3, <1>4 DEF RecordOK, InDoubt, Drafted

\* An attempt that ends in doubt leaves a sound record.
LEMMA DoubtedOK ==
  ASSUME NEW p \in Previews, NEW c, NEW w, NEW f, RecordOK(p, f, c, w),
         f.status \in Drafted
  PROVE  RecordOK(p, Doubted(f), c, w)
BY DEF RecordOK, Doubted, Record, Drafted

\* Pruning keeps a record sound, puts none in doubt, and leaves alone what is
\* held or confirmed (evictPersistedPreviews).
LEMMA EvictedOK ==
  ASSUME NEW p \in Previews, NEW c, NEW w, NEW f, RecordOK(p, f, c, w)
  PROVE  /\ RecordOK(p, Evicted(f), c, w)
         /\ InDoubt(Evicted(f)) => InDoubt(f)
         /\ Evicted(f).attempt # None => Evicted(f) = f
<1>1. CASE f.status = "generating" /\ ~f.live
  <2>1. Evicted(f) = Absent
    BY <1>1 DEF Evicted
  <2>2. QED
    BY <2>1, SimpleRecords
<1>2. CASE f.status = "running" /\ ~f.live
  <2>1. Evicted(f) = Doubted(f)
    BY <1>2 DEF Evicted
  <2>2. Doubted(f).attempt = None
    BY DEF RecordOK, Record, Doubted
  <2>3. QED
    BY <1>2, <2>1, <2>2, DoubtedOK DEF InDoubt, Drafted
<1>3. CASE f.status = "unknown" /\ ~f.fresh
  <2>1. Evicted(f) = Ready(f.draft) /\ f.draft \in Drafts
    BY <1>3 DEF Evicted, RecordOK, Drafted
  <2>2. QED
    BY <2>1, SimpleRecords
<1>4. CASE f.status \in {"ready", "done"} /\ ~f.fresh
  <2>1. Evicted(f) = Absent
    BY <1>4 DEF Evicted
  <2>2. QED
    BY <2>1, SimpleRecords
<1>5. CASE /\ ~(f.status \in {"generating", "running"} /\ ~f.live)
           /\ ~(f.status \in {"unknown", "ready", "done"} /\ ~f.fresh)
  <2>1. Evicted(f) = f
    BY <1>5 DEF Evicted
  <2>2. QED
    BY <2>1
<1>6. QED
  BY <1>1, <1>2, <1>3, <1>4, <1>5

-----------------------------------------------------------------------------
(* Tables *)

\* What an operation reads is a sound table.
LEMMA CurrentOK ==
  ASSUME NEW c, NEW w, TableOK(file, c, w), Alone(file)
  PROVE  /\ TableOK(Current, c, w) /\ Alone(Current)
         /\ \A p \in Previews : Current[p] = Evicted(file[p])
<1>1. \A p \in Previews : Current[p] = Evicted(file[p])
  BY DEF Current
<1>2. \A p \in Previews : RecordOK(p, Current[p], c, w)
  BY <1>1, EvictedOK DEF TableOK
<1>3. \A p \in Previews : InDoubt(Current[p]) => InDoubt(file[p])
  BY <1>1, EvictedOK DEF TableOK
<1>4. TableOK(Current, c, w)
  <2>1. Current = [p \in Previews |-> Current[p]]
    BY DEF Current
  <2>2. QED
    BY <1>2, <2>1 DEF TableOK
<1>5. QED
  BY <1>1, <1>3, <1>4 DEF Alone

\* Changing one record to a sound one, in doubt only where no other preview of
\* its action is, gives a sound table.
LEMMA WithOK ==
  ASSUME NEW c, NEW w, TableOK(file, c, w), Alone(file),
         NEW p \in Previews, NEW f, RecordOK(p, f, c, w),
         InDoubt(f) => ~DoubtElsewhere(p)
  PROVE  TableOK(With(p, f), c, w) /\ Alone(With(p, f))
<1>1. TableOK(Current, c, w) /\ Alone(Current)
  BY CurrentOK
<1>2. \A q \in Previews : With(p, f)[q] = IF q = p THEN f ELSE Current[q]
  BY DEF With, Current
<1>3. With(p, f) = [q \in Previews |-> With(p, f)[q]]
  BY DEF With, Current
<1>4. TableOK(With(p, f), c, w)
  BY <1>1, <1>2, <1>3 DEF TableOK
<1>5. Alone(With(p, f))
  <2>1. SUFFICES ASSUME NEW q \in Previews, NEW r \in Previews, SameAction(q, r),
                        InDoubt(With(p, f)[q]), InDoubt(With(p, f)[r]), q # r
                 PROVE  FALSE
    BY DEF Alone
  <2>2. CASE q # p /\ r # p
    BY <1>1, <1>2, <2>1, <2>2 DEF Alone
  <2>3. CASE q = p
    BY <1>2, <2>1, <2>3 DEF DoubtElsewhere, SameAction
  <2>4. CASE r = p
    BY <1>2, <2>1, <2>4 DEF DoubtElsewhere, SameAction
  <2>5. QED
    BY <2>2, <2>3, <2>4
<1>6. QED
  BY <1>4, <1>5

\* Making room keeps a table sound (fitPreviewState).
LEMMA FittedOK ==
  ASSUME NEW c, NEW w, TableOK(file, c, w), Alone(file),
         NEW p \in Previews, NEW f, RecordOK(p, f, c, w), ~InDoubt(f),
         NEW t \in Fitted(p, f)
  PROVE  TableOK(t, c, w) /\ Alone(t)
<1>1. TableOK(With(p, f), c, w) /\ Alone(With(p, f))
  BY WithOK
<1>2. CASE t = With(p, f)
  BY <1>1, <1>2
<1>3. CASE \E q \in Previews : t = [With(p, f) EXCEPT ![q] = Absent]
  <2>1. PICK q \in Previews : t = [With(p, f) EXCEPT ![q] = Absent]
    BY <1>3
  <2>2. DOMAIN With(p, f) = Previews
    BY DEF With, Current
  <2>3. \A r \in Previews : t[r] = IF r = q THEN Absent ELSE With(p, f)[r]
    BY <2>1, <2>2
  <2>4. t = [r \in Previews |-> t[r]]
    BY <2>1, <2>2
  <2>5. TableOK(t, c, w)
    BY <1>1, <2>3, <2>4, SimpleRecords DEF TableOK
  <2>6. Alone(t)
    BY <1>1, <2>3, SimpleRecords DEF Alone
  <2>7. QED
    BY <2>5, <2>6
<1>4. QED
  BY <1>2, <1>3 DEF Fitted, Spare, Held

\* A table is still sound after an attempt begins, moves on with its draft or
\* ends: no record is held by one that had not begun.
LEMMA MovedOK ==
  ASSUME NEW w, NEW t, confirming \in [Attempts -> Confirmation],
         TableOK(t, confirming, w),
         NEW a \in Attempts, NEW x \in Confirmation, x.pc # "off",
         \/ confirming[a].pc = "off" \/ x.pc = "over"
         \/ /\ confirming[a].pc # "over"
            /\ x.preview = confirming[a].preview /\ x.draft = confirming[a].draft
  PROVE  TableOK(t, [confirming EXCEPT ![a] = x], w)
<1> DEFINE c == [confirming EXCEPT ![a] = x]
<1>1. \A b \in Attempts : c[b] = IF b = a THEN x ELSE confirming[b]
  OBVIOUS
<1>2. ASSUME NEW p \in Previews PROVE RecordOK(p, t[p], c, w)
  <2>1. RecordOK(p, t[p], confirming, w)
    BY DEF TableOK
  <2>2. t[p].attempt # None => t[p].attempt \in Attempts
    BY <2>1 DEF RecordOK, Record
  <2>3. QED
    BY <1>1, <2>1, <2>2 DEF RecordOK
<1>3. QED
  BY <1>2 DEF TableOK

\* A table is still sound after the ledger took a record it did not have.
LEMMA LedgerOK ==
  ASSUME NEW c, NEW t, audit \in [Previews -> Write \cup {None}],
         TableOK(t, c, audit),
         NEW q \in Previews, NEW v \in Write, audit[q] \in {None, v}
  PROVE  TableOK(t, c, [audit EXCEPT ![q] = v])
<1> DEFINE w == [audit EXCEPT ![q] = v]
<1>1. ASSUME NEW p \in Previews, t[p].status = "done" PROVE w[p] = audit[p]
  <2>1. /\ t[p].object \in Object /\ t[p].draft \in Drafts
        /\ audit[p] = [object |-> t[p].object, draft |-> t[p].draft]
    BY <1>1 DEF TableOK, RecordOK, Drafted
  <2>2. audit[p] \in Write
    BY <2>1 DEF Write
  <2>3. audit[p] # None
    BY <2>2, NoneIsNothing
  <2>4. QED
    BY <2>3
<1>2. ASSUME NEW p \in Previews PROVE RecordOK(p, t[p], c, w)
  BY <1>1, <1>2 DEF TableOK, RecordOK
<1>3. QED
  BY <1>2 DEF TableOK

\* A write of the file, whether it succeeds or fails, leaves a sound file.
LEMMA SavedOK ==
  ASSUME NEW c, NEW w, TableOK(file, c, w), Alone(file),
         NEW t, TableOK(t, c, w), Alone(t), SaveOrNot(t), faults \in 0..MaxFaults
  PROVE  TableOK(file', c, w) /\ Alone(file') /\ faults' \in 0..MaxFaults
<1>1. file' \in {file, t}
  BY DEF SaveOrNot, Save, SaveFails
<1>2. faults' \in 0..MaxFaults
  BY PreviewConstants DEF SaveOrNot, Save, SaveFails
<1>3. QED
  BY <1>1, <1>2

-----------------------------------------------------------------------------
(* Drafts *)

\* Steps that leave the confirmations and the ledger alone.
LEMMA QuietConfirming ==
  ASSUME ConfirmingOK, UNCHANGED <<confirming, audit>> PROVE ConfirmingOK'
BY DEF ConfirmingOK, WriteOf

\* Pruning alone, making a draft, and dropping one.
LEMMA ReadStep == ASSUME StoreInv, Read PROVE StoreInv'
<1>1. TableOK(Current, confirming, audit) /\ Alone(Current)
  BY CurrentOK DEF StoreInv, FileOK
<1>2. FileOK' /\ faults' \in 0..MaxFaults
  BY <1>1, SavedOK DEF StoreInv, FileOK, RestOK, Read
<1>3. QED
  BY <1>2, QuietConfirming DEF StoreInv, RestOK, Read, github

\* A new draft, with room made for it.
LEMMA StashStep == ASSUME StoreInv, NEW p \in Previews, Stash(p) PROVE StoreInv'
<1>1. 1 \in Drafts /\ drafts' \in [Previews -> 0..MaxDrafts]
  BY PreviewConstants DEF Stash, StoreInv, RestOK, Drafts
<1>2. PICK t \in Fitted(p, Ready(1)) : SaveOrNot(t)
  BY DEF Stash
<1>3. RecordOK(p, Ready(1), confirming, audit) /\ ~InDoubt(Ready(1))
  BY <1>1, SimpleRecords
<1>4. TableOK(t, confirming, audit) /\ Alone(t)
  BY <1>3, FittedOK DEF StoreInv, FileOK
<1>5. FileOK' /\ faults' \in 0..MaxFaults
  BY <1>2, <1>4, SavedOK DEF StoreInv, FileOK, RestOK, Stash
<1>6. QED
  BY <1>1, <1>5, QuietConfirming DEF StoreInv, RestOK, Stash, github

\* A reservation, with room made for it.
LEMMA ReserveStep ==
  ASSUME StoreInv, NEW g \in Generators, NEW p \in Previews, Reserve(g, p)
  PROVE  StoreInv'
<1>1. PICK t \in Fitted(p, Reserved) :
            /\ SaveOrNot(t)
            /\ \/ generating' = [generating EXCEPT ![g] = [pc |-> "generate", preview |-> p]]
               \/ UNCHANGED generating
  BY DEF Reserve, SaveOrNot
<1>2. RecordOK(p, Reserved, confirming, audit) /\ ~InDoubt(Reserved)
  BY SimpleRecords
<1>3. TableOK(t, confirming, audit) /\ Alone(t)
  BY <1>2, FittedOK DEF StoreInv, FileOK
<1>4. FileOK' /\ faults' \in 0..MaxFaults
  BY <1>1, <1>3, SavedOK DEF StoreInv, FileOK, RestOK, Reserve
<1>5. /\ generating' \in [Generators -> Generation]
      /\ \A h \in Generators : generating'[h].pc # "off" => generating'[h].preview \in Previews
  BY <1>1 DEF StoreInv, RestOK, Generation
<1>6. QED
  BY <1>4, <1>5, QuietConfirming DEF StoreInv, RestOK, Reserve, github

\* A generation that moves on keeps its preview; one that ends has none.
LEMMA GenMoves ==
  ASSUME RestOK, NEW g \in Generators, generating[g].pc # "off",
         \/ generating' = [generating EXCEPT ![g] = Idle]
         \/ GenTo(g, "cancel")
  PROVE  /\ generating[g].preview \in Previews
         /\ generating' \in [Generators -> Generation]
         /\ \A h \in Generators :
                generating'[h].pc # "off" => generating'[h].preview \in Previews
<1>1. Idle \in Generation /\ Idle.pc = "off"
  BY DEF Idle, Generation
<1>2. [generating[g] EXCEPT !.pc = "cancel"] \in Generation
  BY DEF RestOK, Generation
<1>3. CASE generating' = [generating EXCEPT ![g] = Idle]
  BY <1>1, <1>3 DEF RestOK
<1>4. CASE GenTo(g, "cancel")
  <2>1. generating' = [generating EXCEPT ![g] = [generating[g] EXCEPT !.pc = "cancel"]]
    BY <1>4 DEF GenTo
  <2>2. [generating[g] EXCEPT !.pc = "cancel"].preview = generating[g].preview
    BY DEF RestOK, Generation
  <2>3. QED
    BY <1>2, <2>1, <2>2 DEF RestOK
<1>5. QED
  BY <1>3, <1>4 DEF RestOK

\* A generation completes its reservation, fails, or takes it back.
LEMMA GenerateStep ==
  ASSUME StoreInv, NEW g \in Generators, Generate(g) PROVE StoreInv'
<1>1. CASE \E p \in Previews : Reserve(g, p)
  BY <1>1, ReserveStep
<1>2. CASE Complete(g)
  <2> DEFINE p == generating[g].preview
             n == drafts[p] + 1
  <2>1. /\ p \in Previews /\ generating' \in [Generators -> Generation]
        /\ \A h \in Generators :
                generating'[h].pc # "off" => generating'[h].preview \in Previews
    BY <1>2, GenMoves DEF Complete, GenStep, StoreInv
  <2>2. n \in Drafts /\ drafts' \in [Previews -> 0..MaxDrafts]
    BY <1>2, <2>1, PreviewConstants DEF Complete, StoreInv, RestOK, Drafts
  <2>3. RecordOK(p, Ready(n), confirming, audit) /\ ~InDoubt(Ready(n))
    BY <2>1, <2>2, SimpleRecords
  <2>4. TableOK(With(p, Ready(n)), confirming, audit) /\ Alone(With(p, Ready(n)))
    BY <2>1, <2>3, WithOK DEF StoreInv, FileOK
  <2>5. SaveOrNot(With(p, Ready(n)))
    BY <1>2 DEF Complete, SaveOrNot
  <2>6. FileOK' /\ faults' \in 0..MaxFaults
    BY <1>2, <2>4, <2>5, SavedOK DEF StoreInv, FileOK, RestOK, Complete, GenStep
  <2>7. QED
    BY <1>2, <2>1, <2>2, <2>6, QuietConfirming
       DEF StoreInv, RestOK, Complete, GenStep, github
<1>3. CASE GenerationFails(g)
  <2>1. /\ generating' \in [Generators -> Generation]
        /\ \A h \in Generators :
                generating'[h].pc # "off" => generating'[h].preview \in Previews
    BY <1>3, GenMoves DEF GenerationFails, GenStep, StoreInv
  <2>2. QED
    BY <1>3, <2>1, QuietConfirming
       DEF StoreInv, FileOK, RestOK, GenerationFails, GenStep, github
<1>4. CASE CancelReservation(g)
  <2> DEFINE p == generating[g].preview
  <2>1. /\ p \in Previews /\ generating' \in [Generators -> Generation]
        /\ \A h \in Generators :
                generating'[h].pc # "off" => generating'[h].preview \in Previews
    BY <1>4, GenMoves DEF CancelReservation, GenStep, StoreInv
  <2>2. TableOK(With(p, Absent), confirming, audit) /\ Alone(With(p, Absent))
    BY <2>1, SimpleRecords, WithOK DEF StoreInv, FileOK
  <2>3. TableOK(Current, confirming, audit) /\ Alone(Current)
    BY CurrentOK DEF StoreInv, FileOK
  <2>4. FileOK' /\ faults' \in 0..MaxFaults
    BY <1>4, <2>2, <2>3, SavedOK DEF StoreInv, FileOK, RestOK, CancelReservation, GenStep
  <2>5. QED
    BY <1>4, <2>1, <2>4, QuietConfirming
       DEF StoreInv, RestOK, CancelReservation, GenStep, github
<1>5. QED
  BY <1>1, <1>2, <1>3, <1>4 DEF Generate

\* A draft that was never confirmed is revoked.
LEMMA RevokeStep == ASSUME StoreInv, NEW p \in Previews, Revoke(p) PROVE StoreInv'
<1>1. TableOK(With(p, Absent), confirming, audit) /\ Alone(With(p, Absent))
  BY SimpleRecords, WithOK DEF StoreInv, FileOK
<1>2. FileOK' /\ faults' \in 0..MaxFaults
  BY <1>1, SavedOK DEF StoreInv, FileOK, RestOK, Revoke
<1>3. QED
  BY <1>2, QuietConfirming DEF StoreInv, RestOK, Revoke, github

-----------------------------------------------------------------------------
(* Confirmations *)

Working == Steps \ {"off", "over"}

\* What an attempt may become while the ledger stays as it is.
Sound(x) ==
    /\ x \in Confirmation
    /\ x.pc # "over" => x.pc \in Working /\ x.preview \in Previews /\ x.draft \in Drafts
    /\ x.pc = "audit" => x.object \in Object
    /\ x.pc = "finish" /\ x.object # None =>
            audit[x.preview] = [object |-> x.object, draft |-> x.draft]

\* Moving one attempt on soundly, with the ledger as it is, keeps all sound.
LEMMA ContinueOK ==
  ASSUME ConfirmingOK, NEW a \in Attempts, NEW x, Sound(x), Continue(a, x),
         UNCHANGED audit
  PROVE  ConfirmingOK'
<1>1. \A b \in Attempts : confirming'[b] = IF b = a THEN x ELSE confirming[b]
  BY DEF Continue, ConfirmingOK
<1>2. confirming' \in [Attempts -> Confirmation]
  BY DEF Continue, ConfirmingOK, Sound
<1>3. QED
  BY <1>1, <1>2 DEF ConfirmingOK, Sound, WriteOf

\* An attempt that is over owes nothing.
LEMMA OverSound == Sound(Over)
BY PreviewConstants DEF Sound, Over, Unstarted, Confirmation, Steps

\* An attempt under way keeps its preview and its draft.
LEMMA ToSound ==
  ASSUME ConfirmingOK, NEW a \in Attempts, confirming[a].pc \in Working,
         NEW pc \in Working, NEW o \in Object \cup {None}
  PROVE  LET x == [confirming[a] EXCEPT !.pc = pc, !.object = o]
         IN /\ x \in Confirmation /\ x.pc = pc /\ x.object = o
            /\ x.preview = confirming[a].preview /\ x.preview \in Previews
            /\ x.draft = confirming[a].draft /\ x.draft \in Drafts
<1>1. confirming[a] \in Confirmation
  BY DEF ConfirmingOK
<1>2. confirming[a].preview \in Previews /\ confirming[a].draft \in Drafts
  BY DEF ConfirmingOK, Working
<1>3. QED
  BY <1>1, <1>2 DEF Confirmation, Working

\* A step of an attempt that touches neither file nor ledger.
LEMMA StayStep ==
  ASSUME FileOK, ConfirmingOK, NEW a \in Attempts, confirming[a].pc \in Working,
         NEW pc \in Working, NEW o \in Object \cup {None}, To(a, pc, o),
         pc = "audit" => o \in Object, pc = "finish" => o = None,
         UNCHANGED <<file, audit>>
  PROVE  FileOK' /\ ConfirmingOK'
<1> DEFINE x == [confirming[a] EXCEPT !.pc = pc, !.object = o]
<1>1. /\ x \in Confirmation /\ x.pc = pc /\ x.object = o
      /\ x.preview = confirming[a].preview /\ x.preview \in Previews
      /\ x.draft = confirming[a].draft /\ x.draft \in Drafts
  BY ToSound
<1>2. Sound(x)
  BY <1>1 DEF Sound, Working
<1>3. confirming' = [confirming EXCEPT ![a] = x]
  BY DEF To, Continue
<1>4. TableOK(file, confirming', audit)
  BY <1>1, <1>3, MovedOK DEF FileOK, ConfirmingOK, Working
<1>5. QED
  BY <1>2, <1>3, <1>4, ContinueOK DEF FileOK, Continue

\* The lease on file names an attempt that works on the draft it leases.
LEMMA BeginStep ==
  ASSUME StoreInv, NEW a \in Attempts, NEW p \in Previews, Begin(a, p) PROVE StoreInv'
<1> DEFINE f == Current[p]
           reconcile == f.status = "unknown"
           held == [f EXCEPT !.status = "running", !.attempt = a,
                             !.reconciling = reconcile, !.live = TRUE]
           x == [Unstarted EXCEPT !.pc = IF reconcile THEN "search" ELSE "write",
                                  !.preview = p, !.draft = f.draft]
<1>1. RecordOK(p, f, confirming, audit)
  BY CurrentOK DEF StoreInv, FileOK, TableOK
<1>2. /\ f \in Record /\ f.status \in {"ready", "unknown"} /\ f.draft \in Drafts
      /\ ~DoubtElsewhere(p) /\ confirming[a].pc = "off" /\ a # None
  BY <1>1, PreviewConstants
     DEF Begin, ConfStep, Startable, StartableAlone, RecordOK, Drafted
<1>3. Sound(x) /\ x.pc # "off" /\ x.preview = p /\ x.draft = f.draft
  BY <1>2 DEF Sound, Unstarted, Confirmation, Steps, Working, Record
<1>4. Over \in Confirmation /\ Over.pc = "over" /\ Sound(Over)
  BY OverSound DEF Over, Sound, Unstarted
<1>5. /\ held \in Record /\ held.status = "running" /\ held.attempt = a
      /\ held.draft = f.draft
  BY <1>2 DEF Record
<1>6. ASSUME NEW y \in {x, Over}, Continue(a, y), SaveOrNot(With(p, held))
      PROVE  FileOK' /\ ConfirmingOK' /\ faults' \in 0..MaxFaults
  <2>1. confirming' = [confirming EXCEPT ![a] = y]
    BY <1>6 DEF Continue
  <2>2. y \in Confirmation /\ y.pc # "off"
    BY <1>3, <1>4 DEF Sound
  <2>3. TableOK(file, confirming', audit) /\ Alone(file)
    BY <1>2, <2>1, <2>2, MovedOK DEF StoreInv, FileOK, ConfirmingOK
  <2>4. confirming'[a] = y
    BY <2>1 DEF StoreInv, ConfirmingOK
  <2>5. RecordOK(p, held, confirming', audit)
    <3>1. y.pc # "over" => y.preview = p /\ y.draft = held.draft
      BY <1>3, <1>4, <1>5, <1>6
    <3>2. held.draft \in Drafts
      BY <1>2, <1>5
    <3> HIDE DEF held, f, x
    <3>3. QED
      BY <1>2, <1>5, <2>2, <2>4, <3>1, <3>2 DEF RecordOK, Drafted
  <2>6. TableOK(With(p, held), confirming', audit) /\ Alone(With(p, held))
    BY <1>2, <2>3, <2>5, WithOK
  <2>7. TableOK(file', confirming', audit) /\ Alone(file') /\ faults' \in 0..MaxFaults
    BY <1>6, <2>3, <2>6, SavedOK DEF StoreInv, RestOK
  <2>8. UNCHANGED audit
    BY DEF Begin
  <2>9. ConfirmingOK'
    BY <1>3, <1>4, <1>6, <2>8, ContinueOK DEF StoreInv
  <2>10. QED
    BY <2>7, <2>8, <2>9 DEF FileOK
<1>7. FileOK' /\ ConfirmingOK' /\ faults' \in 0..MaxFaults
  BY <1>6 DEF Begin, SaveOrNot
<1>8. QED
  BY <1>7 DEF StoreInv, RestOK, Begin, ConfStep, github

\* The steps that ask GitHub.
LEMMA AskStep ==
  ASSUME StoreInv, NEW a \in Attempts,
         \/ AdoptObject(a) \/ CreateObject(a) \/ WriteFails(a)
         \/ Reject(a) \/ ReconcileEntry(a)
  PROVE  StoreInv'
<1>1. confirming[a].pc \in {"write", "search"} /\ confirming[a].pc \in Working
  BY DEF AdoptObject, CreateObject, WriteFails, Reject, ReconcileEntry, ConfStep,
         Working, Steps
<1>2. UNCHANGED <<file, drafts, generating, audit, crashes, faults>>
  BY DEF AdoptObject, CreateObject, WriteFails, Reject, ReconcileEntry, ConfStep
<1>3. \A o \in objects : o \in Object
  BY DEF StoreInv, RestOK
<1>4. CASE AdoptObject(a)
  <2>1. PICK o \in Known(a) : Track(a, o) /\ To(a, "audit", o)
    BY <1>4 DEF AdoptObject
  <2>2. o \in objects /\ o \in Object
    BY <2>1, <1>3 DEF Known, Ours
  <2>3. FileOK' /\ ConfirmingOK'
    BY <1>1, <1>2, <2>1, <2>2, StayStep DEF StoreInv, Working, Steps
  <2>4. objects' = objects /\ seen' = seen /\ tracked' \subseteq objects
    BY <1>4, <2>1, <2>2 DEF AdoptObject, Track, StoreInv, RestOK
  <2>5. QED
    BY <1>2, <2>3, <2>4 DEF StoreInv, RestOK
<1>5. CASE CreateObject(a)
  <2> DEFINE o == [attempt |-> a, preview |-> confirming[a].preview,
                   draft |-> confirming[a].draft]
  <2>1. o \in Object
    BY <1>1 DEF StoreInv, ConfirmingOK, Object
  <2>2. To(a, "audit", o) \/ To(a, "finish", None)
    BY <1>5 DEF CreateObject
  <2>3. FileOK' /\ ConfirmingOK'
    BY <1>1, <1>2, <2>1, <2>2, StayStep DEF StoreInv, Working, Steps
  <2>4. /\ objects' = objects \cup {o} /\ seen' \subseteq objects'
        /\ tracked' \subseteq objects'
    BY <1>5 DEF CreateObject, Track, StoreInv, RestOK
  <2>5. QED
    BY <1>2, <2>1, <2>3, <2>4 DEF StoreInv, RestOK
<1>6. CASE WriteFails(a) \/ Reject(a)
  <2>1. To(a, "finish", None) \/ To(a, "discard", None)
    BY <1>6 DEF WriteFails, Reject
  <2>2. FileOK' /\ ConfirmingOK'
    BY <1>1, <1>2, <2>1, StayStep DEF StoreInv, Working, Steps
  <2>3. QED
    BY <1>2, <1>6, <2>2 DEF StoreInv, RestOK, WriteFails, Reject, github
<1>7. CASE ReconcileEntry(a)
  <2>1. \/ \E o \in objects : To(a, "audit", o)
        \/ To(a, "finish", None)
    BY <1>7 DEF ReconcileEntry, Ours
  <2>2. FileOK' /\ ConfirmingOK'
    BY <1>1, <1>2, <1>3, <2>1, StayStep DEF StoreInv, Working, Steps
  <2>3. QED
    BY <1>2, <1>7, <2>2 DEF StoreInv, RestOK, ReconcileEntry, github
<1>8. QED
  BY <1>4, <1>5, <1>6, <1>7

\* The ledger takes a write it does not have, and the attempt may report it.
LEMMA RecordStep ==
  ASSUME StoreInv, NEW a \in Attempts, RecordBotWrite(a) PROVE StoreInv'
<1> DEFINE q == confirming[a].preview
           v == WriteOf(a)
           next == [audit EXCEPT ![q] = v]
<1>1. /\ confirming[a].pc \in Working /\ q \in Previews
      /\ confirming[a].object \in Object /\ v \in Write
  BY DEF RecordBotWrite, ConfStep, StoreInv, ConfirmingOK, WriteOf, Write, Working, Steps
<1>2. faults' \in 0..MaxFaults
  BY PreviewConstants DEF RecordBotWrite, StoreInv, RestOK
<1>3. CASE UNCHANGED audit /\ To(a, "finish", None)
  <2>1. FileOK' /\ ConfirmingOK'
    BY <1>1, <1>3, StayStep DEF StoreInv, RecordBotWrite, Working, Steps
  <2>2. QED
    BY <1>2, <1>3, <2>1 DEF StoreInv, RestOK, RecordBotWrite, ConfStep, github
<1>4. ASSUME NEW o \in {confirming[a].object, None}, Auditable(a), audit' = next,
             To(a, "finish", o)
      PROVE  StoreInv'
  <2> DEFINE x == [confirming[a] EXCEPT !.pc = "finish", !.object = o]
  <2>1. /\ x \in Confirmation /\ x.pc = "finish" /\ x.object = o
        /\ x.preview = q /\ x.draft = confirming[a].draft /\ x.draft \in Drafts
    <3>1. o \in Object \cup {None} /\ "finish" \in Working
      BY <1>1, <1>4 DEF Working, Steps
    <3>2. confirming[a] \in Confirmation /\ confirming[a].draft \in Drafts
      BY <1>1 DEF StoreInv, ConfirmingOK, Working
    <3>3. QED
      BY <1>1, <3>1, <3>2 DEF Confirmation, Working
  <2>2. confirming' = [confirming EXCEPT ![a] = x] /\ UNCHANGED file
    BY <1>4 DEF To, Continue, RecordBotWrite
  <2>3. TableOK(file, confirming', audit)
    BY <1>1, <2>1, <2>2, MovedOK DEF StoreInv, FileOK, ConfirmingOK, Working
  <2>4. TableOK(file, confirming', next)
    BY <1>1, <1>4, <2>3, LedgerOK DEF StoreInv, RestOK, Auditable
  <2>5. FileOK'
    BY <1>4, <2>2, <2>4 DEF StoreInv, FileOK, Alone
  <2>6. next[q] = v /\ \A p \in Previews : audit[p] \in Write => next[p] = audit[p]
    <3>1. \A p \in Previews : next[p] = IF p = q THEN v ELSE audit[p]
      BY DEF StoreInv, RestOK
    <3>2. audit[q] \in Write => audit[q] = v
      BY <1>4, NoneIsNothing DEF Auditable
    <3>3. QED
      BY <1>1, <3>1, <3>2
  <2>7. \A b \in Attempts : confirming'[b] = IF b = a THEN x ELSE confirming[b]
    BY <2>2 DEF StoreInv, ConfirmingOK
  <2>8. confirming' \in [Attempts -> Confirmation]
    BY <2>1, <2>2 DEF StoreInv, ConfirmingOK
  <2>9. ASSUME NEW b \in Attempts PROVE
            /\ confirming'[b].pc \notin {"off", "over"} =>
                confirming'[b].preview \in Previews /\ confirming'[b].draft \in Drafts
            /\ confirming'[b].pc = "audit" => confirming'[b].object \in Object
            /\ confirming'[b].pc = "finish" /\ confirming'[b].object # None =>
                next[confirming'[b].preview] =
                    [object |-> confirming'[b].object, draft |-> confirming'[b].draft]
    <3>1. CASE b = a
      <4>1. o # None => next[q] = [object |-> o, draft |-> confirming[a].draft]
        BY <1>4, <2>6 DEF WriteOf
      <4>2. QED
        BY <1>1, <2>1, <2>7, <3>1, <4>1
    <3>2. CASE b # a
      <4>1. ASSUME confirming[b].pc = "finish", confirming[b].object # None
            PROVE  audit[confirming[b].preview] \in Write /\ confirming[b].preview \in Previews
        <5>1. /\ confirming[b].object \in Object /\ confirming[b].draft \in Drafts
              /\ confirming[b].preview \in Previews
              /\ audit[confirming[b].preview] = WriteOf(b)
          BY <4>1 DEF StoreInv, ConfirmingOK, Confirmation
        <5>2. QED
          BY <5>1 DEF WriteOf, Write
      <4>2. QED
        BY <2>6, <2>7, <3>2, <4>1 DEF StoreInv, ConfirmingOK, WriteOf
    <3>3. QED
      BY <3>1, <3>2
  <2>10. ConfirmingOK'
    BY <1>4, <2>8, <2>9 DEF ConfirmingOK, WriteOf
  <2>11. audit' \in [Previews -> Write \cup {None}]
    BY <1>1, <1>4 DEF StoreInv, RestOK
  <2>12. QED
    BY <1>2, <2>5, <2>10, <2>11 DEF StoreInv, RestOK, RecordBotWrite, ConfStep, github
<1>5. QED
  BY <1>3, <1>4 DEF RecordBotWrite

\* An attempt that ends: it may change the record it holds, to a doubt, to a
\* confirmation that is in the ledger, or to nothing.
LEMMA EndsOK ==
  ASSUME StoreInv, NEW a \in Attempts, confirming[a].pc \in Working,
         NEW f, HoldsLease(a) => RecordOK(confirming[a].preview, f, confirming, audit),
         Continue(a, Over), UNCHANGED audit,
         SaveOrNot(IF HoldsLease(a) THEN With(confirming[a].preview, f) ELSE Current)
  PROVE  FileOK' /\ ConfirmingOK' /\ faults' \in 0..MaxFaults
<1> DEFINE p == confirming[a].preview
<1>1. p \in Previews
  BY DEF StoreInv, ConfirmingOK, Working
<1>2. Over \in Confirmation /\ Over.pc = "over" /\ Sound(Over)
  BY OverSound DEF Over, Sound, Unstarted
<1>3. confirming' = [confirming EXCEPT ![a] = Over]
  BY DEF Continue
<1>4. TableOK(file, confirming, audit) /\ Alone(file)
  BY DEF StoreInv, FileOK
<1>5. TableOK(Current, confirming, audit) /\ Alone(Current)
  BY <1>4, CurrentOK
<1>6. CASE HoldsLease(a)
  <2>1. ~DoubtElsewhere(p)
    BY <1>1, <1>5, <1>6 DEF HoldsLease, Alone, DoubtElsewhere, InDoubt
  <2>2. TableOK(With(p, f), confirming, audit) /\ Alone(With(p, f))
    BY <1>1, <1>4, <1>6, <2>1, WithOK
  <2>3. SaveOrNot(With(p, f))
    BY <1>6
  <2>4. TableOK(file', confirming, audit) /\ Alone(file') /\ faults' \in 0..MaxFaults
    BY <1>4, <2>2, <2>3, SavedOK DEF StoreInv, RestOK
  <2>5. TableOK(file', confirming', audit)
    BY <1>2, <1>3, <2>4, MovedOK DEF StoreInv, ConfirmingOK
  <2>6. ConfirmingOK'
    BY <1>2, ContinueOK DEF StoreInv
  <2>7. QED
    BY <2>4, <2>5, <2>6 DEF FileOK
<1>7. CASE ~HoldsLease(a)
  <2>1. SaveOrNot(Current)
    BY <1>7
  <2>2. TableOK(file', confirming, audit) /\ Alone(file') /\ faults' \in 0..MaxFaults
    BY <1>4, <1>5, <2>1, SavedOK DEF StoreInv, RestOK
  <2>3. TableOK(file', confirming', audit)
    BY <1>2, <1>3, <2>2, MovedOK DEF StoreInv, ConfirmingOK
  <2>4. ConfirmingOK'
    BY <1>2, ContinueOK DEF StoreInv
  <2>5. QED
    BY <2>2, <2>3, <2>4 DEF FileOK
<1>8. QED
  BY <1>6, <1>7

\* What an attempt reports of the preview it holds is in the ledger with the
\* draft on file: while the lease is held nobody makes another draft.
LEMMA FinishStep == ASSUME StoreInv, NEW a \in Attempts, Finish(a) PROVE StoreInv'
<1> DEFINE p == confirming[a].preview
           f == Current[p]
           o == confirming[a].object
<1>1. /\ confirming[a].pc = "finish" /\ "finish" \in Working
      /\ p \in Previews /\ o \in Object \cup {None}
  BY DEF Finish, ConfStep, StoreInv, ConfirmingOK, Confirmation, Working, Steps
<1>2. ASSUME HoldsLease(a) PROVE RecordOK(p, Finished(f, o), confirming, audit)
  <2>1. RecordOK(p, f, confirming, audit)
    BY <1>1, CurrentOK DEF StoreInv, FileOK, TableOK
  <2>2. f.status = "running" /\ f.attempt = a /\ a # None
    BY <1>2, PreviewConstants DEF HoldsLease
  <2>3. f.draft = confirming[a].draft /\ f.draft \in Drafts
    BY <1>1, <2>1, <2>2 DEF RecordOK, Drafted
  <2>4. CASE o = None
    <3>1. Finished(f, o) = Doubted(f)
      BY <2>4 DEF Finished
    <3>2. QED
      BY <1>1, <2>1, <2>2, <3>1, DoubtedOK DEF Drafted
  <2>5. CASE o # None
    <3>1. audit[p] = [object |-> o, draft |-> f.draft]
      BY <1>1, <2>3, <2>5 DEF StoreInv, ConfirmingOK, WriteOf
    <3>2. Ready(f.draft) \in Record /\ Ready(f.draft).attempt = None
                                   /\ Ready(f.draft).draft = f.draft
      <4>1. RecordOK(p, Ready(f.draft), confirming, audit)
        BY <1>1, <2>3, SimpleRecords
      <4>2. Ready(f.draft) \in Record
        BY <4>1 DEF RecordOK
      <4>3. Ready(f.draft).attempt = None /\ Ready(f.draft).draft = f.draft
        BY DEF Ready, Absent
      <4>4. QED
        BY <4>2, <4>3
    <3>3. Finished(f, o) = [Ready(f.draft) EXCEPT !.status = "done", !.object = o]
      BY <2>5 DEF Finished
    <3>4. /\ Finished(f, o) \in Record /\ Finished(f, o).status = "done"
          /\ Finished(f, o).attempt = None /\ Finished(f, o).draft = f.draft
          /\ Finished(f, o).object = o
      BY <1>1, <3>2, <3>3 DEF Record
    <3>5. QED
      BY <1>1, <2>3, <2>5, <3>1, <3>4 DEF RecordOK
  <2>6. QED
    BY <2>4, <2>5
<1>3. FileOK' /\ ConfirmingOK' /\ faults' \in 0..MaxFaults
  BY <1>1, <1>2, EndsOK DEF Finish
<1>4. QED
  BY <1>3 DEF StoreInv, RestOK, Finish, ConfStep, github

\* An attempt that gives up drops the record it holds.
LEMMA DiscardStep == ASSUME StoreInv, NEW a \in Attempts, Discard(a) PROVE StoreInv'
<1>1. confirming[a].pc \in Working /\ confirming[a].preview \in Previews
  BY DEF Discard, ConfStep, StoreInv, ConfirmingOK, Working, Steps
<1>2. RecordOK(confirming[a].preview, Absent, confirming, audit)
  BY <1>1, SimpleRecords
<1>3. FileOK' /\ ConfirmingOK' /\ faults' \in 0..MaxFaults
  BY <1>1, <1>2, EndsOK DEF Discard
<1>4. QED
  BY <1>3 DEF StoreInv, RestOK, Discard, ConfStep, github

-----------------------------------------------------------------------------
(* Time and the process *)

\* A lease that ends and a record that grows old are the same record otherwise.
LEMMA FlagStep ==
  ASSUME StoreInv, NEW p \in Previews, Lapse(p) \/ Age(p) PROVE StoreInv'
<1> DEFINE f == file'[p]
<1>1. /\ file' \in {[file EXCEPT ![p].live = FALSE], [file EXCEPT ![p].fresh = FALSE]}
      /\ UNCHANGED <<drafts, confirming, generating, audit, github, crashes, faults>>
  BY DEF Lapse, Age
<1>2. file = [q \in Previews |-> file[q]] /\ file[p] \in Record
  BY DEF StoreInv, FileOK, TableOK, RecordOK
<1>3. \A q \in Previews \ {p} : file'[q] = file[q]
  BY <1>1, <1>2
<1>4. /\ f \in Record /\ f.status = file[p].status /\ f.attempt = file[p].attempt
      /\ f.draft = file[p].draft /\ f.object = file[p].object
  <2>1. f \in {[file[p] EXCEPT !.live = FALSE], [file[p] EXCEPT !.fresh = FALSE]}
    BY <1>1, <1>2
  <2>2. QED
    BY <1>2, <2>1 DEF Record
<1>5. \A q \in Previews : RecordOK(q, file'[q], confirming, audit)
  BY <1>3, <1>4 DEF StoreInv, FileOK, TableOK, RecordOK
<1>6. TableOK(file', confirming, audit)
  BY <1>1, <1>2, <1>5 DEF TableOK
<1>7. Alone(file')
  BY <1>3, <1>4 DEF StoreInv, FileOK, Alone, InDoubt
<1>8. QED
  BY <1>1, <1>6, <1>7, QuietConfirming DEF StoreInv, FileOK, RestOK, github

\* The search index catching up changes what is seen, no more.
LEMMA IndexStep == ASSUME StoreInv, NEW o \in objects, Index(o) PROVE StoreInv'
BY QuietConfirming DEF StoreInv, FileOK, RestOK, Index

\* A process that dies ends every confirmation that had begun.
LEMMA CrashStep == ASSUME StoreInv, Crash PROVE StoreInv'
<1>1. \A a \in Attempts :
        confirming'[a] = IF confirming[a].pc = "off" THEN Unstarted ELSE Over
  BY DEF Crash
<1>2. /\ Over \in Confirmation /\ Over.pc = "over"
      /\ Unstarted \in Confirmation /\ Unstarted.pc = "off"
  BY PreviewConstants, OverSound DEF Over, Sound, Unstarted, Confirmation, Steps
<1>3. confirming' \in [Attempts -> Confirmation]
  BY <1>2 DEF Crash
<1>4. ConfirmingOK'
  BY <1>1, <1>2, <1>3 DEF ConfirmingOK
<1>5. ASSUME NEW p \in Previews PROVE RecordOK(p, file[p], confirming', audit)
  <2>1. RecordOK(p, file[p], confirming, audit)
    BY DEF StoreInv, FileOK, TableOK
  <2>2. file[p].attempt # None => file[p].attempt \in Attempts
    BY <2>1 DEF RecordOK, Record
  <2>3. QED
    BY <1>1, <1>2, <2>1, <2>2 DEF RecordOK
<1>6. FileOK'
  BY <1>5 DEF StoreInv, FileOK, TableOK, Alone, Crash
<1>7. /\ generating' \in [Generators -> Generation]
      /\ \A g \in Generators : generating'[g].pc = "off"
  BY DEF Crash, Idle, Generation
<1>8. crashes' \in 0..MaxCrashes
  BY PreviewConstants DEF Crash, StoreInv, RestOK
<1>9. QED
  BY <1>4, <1>6, <1>7, <1>8 DEF StoreInv, RestOK, Crash, github

-----------------------------------------------------------------------------
(* What one step may do to one record *)

\* A record on file was drafted, and a confirmed one has no lease.
HistoryOK ==
    \A p \in Previews :
        /\ file[p].status \in Drafted => drafts[p] # 0
        /\ file[p].status = "done" => ~file[p].live

\* The step prunes the record, or lets its time pass, or leaves it.
KeptOrPruned(p) ==
    \/ file'[p] \in {file[p], Current[p], [file[p] EXCEPT !.fresh = FALSE]}
    \/ file[p].live /\ file'[p] = [file[p] EXCEPT !.live = FALSE]

\* The step puts another record in the place of one that is not confirmed; a doubt goes
\* only with the attempt that discards it.
Replaced(p) ==
    /\ Current[p].status # "done"
    /\ file'[p].status \in Drafted => Current[p].status \in Drafted \/ drafts'[p] # 0
    /\ file'[p].status = "done" => ~file'[p].live
    /\ InDoubt(Current[p]) /\ file'[p].status = "absent" =>
            \E a \in Attempts : file[p].attempt = a /\ confirming[a].pc = "discard"

Stepped == \A p \in Previews : KeptOrPruned(p) \/ Replaced(p)

\* A write of what was read with one record changed.
LEMMA OneChanged ==
  ASSUME NEW q \in Previews, NEW f, SaveOrNot(With(q, f)), file'[q] = f => Replaced(q)
  PROVE  Stepped
<1>1. \A p \in Previews : With(q, f)[p] = IF p = q THEN f ELSE Current[p]
  BY DEF With, Current
<1>2. file' = file \/ file' = With(q, f)
  BY DEF SaveOrNot, Save, SaveFails
<1>3. QED
  BY <1>1, <1>2 DEF Stepped, KeptOrPruned

\* Making room takes a draft that is not in doubt and not confirmed.
LEMMA RoomMade ==
  ASSUME NEW q \in Previews, NEW f, NEW t \in Fitted(q, f), SaveOrNot(t),
         file'[q] = f => Replaced(q)
  PROVE  Stepped
<1>1. \A p \in Previews : With(q, f)[p] = IF p = q THEN f ELSE Current[p]
  BY DEF With, Current
<1>2. CASE t = With(q, f)
  BY <1>2, OneChanged
<1>3. CASE t # With(q, f)
  <2>1. PICK r \in Spare(q, With(q, f)) : t = [With(q, f) EXCEPT ![r] = Absent]
    BY <1>3 DEF Fitted
  <2>2. r \in Previews /\ r # q /\ Current[r].status \in {"generating", "ready"}
    BY <1>1, <2>1 DEF Spare, Held
  <2>3. \A p \in Previews : t[p] = CASE p = r -> Absent [] p = q -> f [] OTHER -> Current[p]
    BY <1>1, <2>1, <2>2 DEF With, Current
  <2>4. file' = file \/ file' = t
    BY DEF SaveOrNot, Save, SaveFails
  <2>5. Absent.status = "absent"
    BY DEF Absent
  <2>6. file' = t => Replaced(r)
    BY <2>2, <2>3, <2>5 DEF Replaced, Drafted, InDoubt
  <2>7. QED
    BY <2>2, <2>3, <2>4, <2>6 DEF Stepped, KeptOrPruned
<1>4. QED
  BY <1>2, <1>3

\* The records that new drafts, reservations and revocations replace.
LEMMA DraftStepped ==
  ASSUME StoreInv, HistoryOK,
         \/ Read
         \/ \E p \in Previews : Stash(p) \/ Revoke(p)
         \/ \E g \in Generators : Generate(g)
  PROVE  Stepped
<1>1. \A p \in Previews : /\ Current[p] = Evicted(file[p])
                          /\ Current[p].status \in Drafted => file[p].status \in Drafted
  BY DEF Current, Evicted, Drafted, Doubted, Absent, StoreInv, FileOK, TableOK, RecordOK
<1>2. /\ Absent.status = "absent" /\ Reserved.status = "generating"
      /\ \A n : Ready(n).status = "ready"
  BY DEF Absent, Reserved, Ready
<1>3. \A g \in Generators : generating[g].pc # "off" => generating[g].preview \in Previews
  BY DEF StoreInv, RestOK
<1>4. CASE Read
  BY <1>4 DEF Read, SaveOrNot, Save, SaveFails, Stepped, KeptOrPruned
<1>5. ASSUME NEW p \in Previews, Stash(p) PROVE Stepped
  <2>1. drafts[p] = 0 /\ drafts'[p] = 1
    BY <1>5 DEF Stash, StoreInv, RestOK
  <2>2. Current[p].status \notin Drafted
    BY <1>1, <2>1 DEF HistoryOK
  <2>3. file'[p] = Ready(1) => Replaced(p)
    BY <1>2, <2>1, <2>2 DEF Replaced, Drafted, InDoubt
  <2>4. QED
    BY <1>5, <2>3, RoomMade DEF Stash
<1>6. ASSUME NEW p \in Previews, Revoke(p) PROVE Stepped
  <2>1. file'[p] = Absent => Replaced(p)
    BY <1>2, <1>6 DEF Revoke, Revocable, Replaced, Drafted, InDoubt
  <2>2. QED
    BY <1>6, <2>1, OneChanged DEF Revoke
<1>7. ASSUME NEW g \in Generators, Generate(g) PROVE Stepped
  <2> DEFINE p == generating[g].preview
  <2>1. CASE \E q \in Previews : Reserve(g, q)
    <3>1. PICK q \in Previews : Reserve(g, q)
      BY <2>1
    <3>2. PICK t \in Fitted(q, Reserved) : SaveOrNot(t)
      BY <3>1 DEF Reserve, SaveOrNot
    <3>3. file'[q] = Reserved => Replaced(q)
      BY <1>2, <3>1 DEF Reserve, Replaced, Drafted, InDoubt
    <3>4. QED
      BY <3>2, <3>3, RoomMade
  <2>2. CASE Complete(g)
    <3>1. /\ p \in Previews /\ Current[p].status = "generating"
          /\ drafts'[p] = drafts[p] + 1 /\ drafts[p] \in Nat
          /\ SaveOrNot(With(p, Ready(drafts[p] + 1)))
      BY <1>3, <2>2 DEF Complete, GenStep, SaveOrNot, StoreInv, RestOK
    <3>2. file'[p] = Ready(drafts[p] + 1) => Replaced(p)
      BY <1>2, <3>1 DEF Replaced, Drafted, InDoubt
    <3>3. QED
      BY <3>1, <3>2, OneChanged
  <2>3. CASE GenerationFails(g)
    BY <2>3 DEF GenerationFails, Stepped, KeptOrPruned
  <2>4. CASE CancelReservation(g)
    <3>1. p \in Previews
      BY <1>3, <2>4 DEF CancelReservation, GenStep
    <3>2. CASE Current[p].status = "generating"
      <4>1. SaveOrNot(With(p, Absent))
        BY <2>4, <3>2 DEF CancelReservation
      <4>2. file'[p] = Absent => Replaced(p)
        BY <1>2, <3>2 DEF Replaced, Drafted, InDoubt
      <4>3. QED
        BY <3>1, <4>1, <4>2, OneChanged
    <3>3. CASE Current[p].status # "generating"
      <4>1. SaveOrNot(Current)
        BY <2>4, <3>3 DEF CancelReservation
      <4>2. QED
        BY <4>1 DEF SaveOrNot, Save, SaveFails, Stepped, KeptOrPruned
    <3>4. QED
      BY <3>2, <3>3
  <2>5. QED
    BY <1>7, <2>1, <2>2, <2>3, <2>4 DEF Generate
<1>8. QED
  BY <1>4, <1>5, <1>6, <1>7

\* The records that confirmations replace: one that may be begun, and one they hold.
LEMMA ConfirmStepped ==
  ASSUME StoreInv, HistoryOK, NEW a \in Attempts, Confirm(a)
  PROVE  Stepped
<1> DEFINE p == confirming[a].preview
<1>1. CASE \E q \in Previews : Begin(a, q)
  <2>1. PICK q \in Previews : Begin(a, q)
    BY <1>1
  <2> DEFINE held == [Current[q] EXCEPT !.status = "running", !.attempt = a,
                          !.reconciling = (Current[q].status = "unknown"), !.live = TRUE]
  <2>2. /\ Current[q].status \in {"ready", "unknown"} /\ SaveOrNot(With(q, held))
    BY <2>1 DEF Begin, Startable, StartableAlone, SaveOrNot
  <2>3. Current[q] \in Record
    <3>1. TableOK(Current, confirming, audit)
      BY CurrentOK DEF StoreInv, FileOK
    <3>2. QED
      BY <3>1 DEF TableOK, RecordOK
  <2>4. held.status = "running"
    BY <2>3 DEF Record
  <2>5. file'[q] = held => Replaced(q)
    BY <2>2, <2>4 DEF Replaced, Drafted, InDoubt
  <2> HIDE DEF held
  <2>6. QED
    BY <2>2, <2>5, OneChanged
<1>2. CASE \/ AdoptObject(a) \/ CreateObject(a) \/ WriteFails(a)
           \/ Reject(a) \/ ReconcileEntry(a) \/ RecordBotWrite(a)
  BY <1>2 DEF AdoptObject, CreateObject, WriteFails, Reject, ReconcileEntry, RecordBotWrite,
              Stepped, KeptOrPruned
<1>3. CASE Finish(a) \/ Discard(a)
  <2> DEFINE f == IF confirming[a].pc = "finish" THEN Finished(Current[p], confirming[a].object)
                  ELSE Absent
  <2>1. /\ p \in Previews /\ confirming[a].pc \in {"finish", "discard"}
        /\ SaveOrNot(IF HoldsLease(a) THEN With(p, f) ELSE Current)
    BY <1>3 DEF Finish, Discard, ConfStep, StoreInv, ConfirmingOK
  <2>2. CASE ~HoldsLease(a)
    BY <2>1, <2>2 DEF SaveOrNot, Save, SaveFails, Stepped, KeptOrPruned
  <2>3. CASE HoldsLease(a)
    <3>1. Current[p].status = "running" /\ Current[p].attempt = a
      BY <2>3 DEF HoldsLease
    <3>2. Current[p] \in Record /\ file[p].attempt = a
      <4>1. /\ RecordOK(p, file[p], confirming, audit) /\ Current[p] = Evicted(file[p])
            /\ Current[p] \in Record
        <5>1. TableOK(Current, confirming, audit) /\ TableOK(file, confirming, audit)
          BY CurrentOK DEF StoreInv, FileOK
        <5>2. QED
          BY <2>1, <5>1 DEF TableOK, RecordOK, Current
      <4>2. a # None
        BY PreviewConstants
      <4>3. Evicted(file[p]).attempt # None => Evicted(file[p]) = file[p]
        <5>1. p \in Previews /\ RecordOK(p, file[p], confirming, audit)
          BY <2>1, <4>1
        <5>2. QED
          BY <5>1, EvictedOK
      <4>4. QED
        BY <3>1, <4>1, <4>2, <4>3
    <3>3. \/ confirming[a].pc = "discard"
          \/ f.status \in {"unknown", "done"} /\ (f.status = "done" => ~f.live)
      BY <2>1, <3>2 DEF Finished, Doubted, Ready, Absent, Record
    <3>4. file'[p] = f => Replaced(p)
      <4>1. CASE confirming[a].pc = "discard"
        BY <3>1, <3>2, <4>1 DEF Replaced, Drafted, InDoubt, Absent
      <4>2. CASE confirming[a].pc # "discard"
        BY <3>1, <3>3, <4>2 DEF Replaced, Drafted, InDoubt
      <4>3. QED
        BY <4>1, <4>2
    <3> HIDE DEF f
    <3>5. QED
      BY <2>1, <2>3, <3>4, OneChanged
  <2>4. QED
    BY <2>2, <2>3
<1>4. QED
  BY <1>1, <1>2, <1>3 DEF Confirm

\* So it is for every step.
LEMMA EveryStep == StoreInv /\ HistoryOK /\ [Next]_vars => Stepped
<1>1. SUFFICES ASSUME StoreInv, HistoryOK, [Next]_vars PROVE Stepped
  OBVIOUS
<1>2. ASSUME NEW p \in Previews, Lapse(p) \/ Age(p) PROVE Stepped
  <2>1. DOMAIN file = Previews
    BY <1>1 DEF StoreInv, FileOK, TableOK
  <2>2. QED
    BY <1>2, <2>1 DEF Lapse, Age, Stepped, KeptOrPruned
<1>3. CASE UNCHANGED vars \/ Crash \/ \E o \in objects : Index(o)
  BY <1>3 DEF vars, Crash, Index, Stepped, KeptOrPruned
<1>4. QED
  BY <1>1, <1>2, <1>3, DraftStepped, ConfirmStepped DEF Next

\* A record that is drafted was, or has just been; a confirmed one is as it was made.
LEMMA StepHistory == StoreInv /\ HistoryOK /\ [Next]_vars => HistoryOK'
<1>1. SUFFICES ASSUME StoreInv, HistoryOK, [Next]_vars PROVE HistoryOK'
  OBVIOUS
<1>2. Stepped
  BY <1>1, EveryStep
<1>3. ASSUME NEW p \in Previews, drafts[p] # 0 PROVE drafts'[p] # 0
  <2>1. drafts \in [Previews -> Nat]
    BY <1>1, PreviewConstants DEF StoreInv, RestOK
  <2>2. \/ drafts' = drafts
        \/ \E q \in Previews : drafts' = [drafts EXCEPT ![q] = 1]
        \/ \E q : drafts' = [drafts EXCEPT ![q] = drafts[q] + 1]
    BY <1>1 DEF Next, Read, Crash, Stash, Revoke, Lapse, Age, Index, Generate, Reserve, Complete,
                GenerationFails, CancelReservation, GenStep, Confirm, Begin, AdoptObject,
                CreateObject, WriteFails, Reject, ReconcileEntry, RecordBotWrite, Finish,
                Discard, ConfStep, vars
  <2>3. QED
    BY <1>3, <2>1, <2>2
<1>4. ASSUME NEW p \in Previews
      PROVE  /\ file'[p].status \in Drafted => drafts'[p] # 0
             /\ file'[p].status = "done" => ~file'[p].live
  <2>1. /\ file[p] \in Record /\ Current[p] = Evicted(file[p])
        /\ file[p].status \in Drafted => drafts[p] # 0
        /\ file[p].status = "done" => ~file[p].live
    BY <1>1 DEF StoreInv, FileOK, TableOK, RecordOK, Current, HistoryOK
  <2>2. /\ Current[p].status \in Drafted => file[p].status \in Drafted
        /\ Current[p].status = "done" => Current[p] = file[p]
    BY <2>1 DEF Evicted, Drafted, Doubted, Absent, Ready, Record
  <2>3. CASE KeptOrPruned(p)
    <3>1. \/ file'[p] = file[p] \/ file'[p] = Current[p]
          \/ file'[p].status = file[p].status /\ file'[p].live = file[p].live
          \/ file'[p].status = file[p].status /\ file'[p].live = FALSE
      BY <2>1, <2>3 DEF KeptOrPruned, Record
    <3>2. QED
      BY <1>3, <2>1, <2>2, <3>1
  <2>4. CASE Replaced(p)
    BY <1>3, <2>1, <2>2, <2>4 DEF Replaced
  <2>5. QED
    BY <1>2, <2>3, <2>4 DEF Stepped
<1>5. QED
  BY <1>4 DEF HistoryOK

\* There is no record at first.
LEMMA InitHistory == Init => HistoryOK
BY DEF Init, HistoryOK, Absent, Drafted

-----------------------------------------------------------------------------
(* The theorems *)

\* An empty file, an empty ledger and nobody at work.
LEMMA InitInv == Init => StoreInv
<1>1. SUFFICES ASSUME Init PROVE StoreInv
  OBVIOUS
<1>2. 0 \in 0..MaxDrafts /\ 0 \in 0..MaxCrashes /\ 0 \in 0..MaxFaults
  BY PreviewConstants
<1>3. \A p \in Previews : file[p] = Absent
  BY <1>1 DEF Init
<1>4. FileOK
  BY <1>1, <1>3, SimpleRecords DEF Init, FileOK, TableOK, Alone
<1>5. Unstarted \in Confirmation /\ Unstarted.pc = "off" /\ Idle \in Generation
      /\ Idle.pc = "off"
  BY <1>2 DEF Unstarted, Confirmation, Steps, Idle, Generation
<1>6. ConfirmingOK
  BY <1>1, <1>5 DEF Init, ConfirmingOK
<1>7. RestOK
  BY <1>1, <1>2, <1>5 DEF Init, RestOK
<1>8. QED
  BY <1>4, <1>6, <1>7 DEF StoreInv

\* Every action of Next keeps the invariant.
LEMMA StepInv == StoreInv /\ [Next]_vars => StoreInv'
<1>1. SUFFICES ASSUME StoreInv, [Next]_vars PROVE StoreInv'
  OBVIOUS
<1>2. CASE Read \/ Crash
  BY <1>1, <1>2, ReadStep, CrashStep
<1>3. ASSUME NEW p \in Previews, Stash(p) \/ Revoke(p) \/ Lapse(p) \/ Age(p)
      PROVE  StoreInv'
  BY <1>1, <1>3, StashStep, RevokeStep, FlagStep
<1>4. ASSUME NEW g \in Generators, Generate(g) PROVE StoreInv'
  BY <1>1, <1>4, GenerateStep
<1>5. ASSUME NEW a \in Attempts, Confirm(a) PROVE StoreInv'
  <2>1. CASE \E p \in Previews : Begin(a, p)
    BY <1>1, <2>1, BeginStep
  <2>2. CASE \/ AdoptObject(a) \/ CreateObject(a) \/ WriteFails(a)
             \/ Reject(a) \/ ReconcileEntry(a)
    BY <1>1, <2>2, AskStep
  <2>3. CASE RecordBotWrite(a) \/ Finish(a) \/ Discard(a)
    BY <1>1, <2>3, RecordStep, FinishStep, DiscardStep
  <2>4. QED
    BY <1>5, <2>1, <2>2, <2>3 DEF Confirm
<1>6. ASSUME NEW o \in objects, Index(o) PROVE StoreInv'
  BY <1>1, <1>6, IndexStep
<1>7. CASE UNCHANGED vars
  BY <1>1, <1>7, QuietConfirming
     DEF vars, github, StoreInv, FileOK, RestOK, TableOK, RecordOK, Alone
<1>8. QED
  BY <1>1, <1>2, <1>3, <1>4, <1>5, <1>6, <1>7 DEF Next

\* The invariant holds in every reachable state of every instance.
THEOREM StoreInvariant == Spec => []StoreInv
<1>1. Init => StoreInv
  BY InitInv
<1>2. StoreInv /\ [Next]_vars => StoreInv'
  BY StepInv
<1>3. QED
  BY <1>1, <1>2, PTL DEF Spec

\* Every operation of the store, the ledger and the confirmations keeps the types.
THEOREM StoreTypes == Spec => []TypeOK
<1>1. StoreInv => TypeOK
  BY DEF StoreInv, FileOK, TableOK, RecordOK, ConfirmingOK, RestOK, TypeOK
<1>2. QED
  BY <1>1, StoreInvariant, PTL

\* Of the previews of one action at most one is being confirmed or in doubt:
\* begin and stash refuse a second, and pruning puts none in doubt that was not.
THEOREM OneDoubt == Spec => []OneInDoubt
<1>1. StoreInv => OneInDoubt
  BY DEF StoreInv, FileOK, Alone, OneInDoubt
<1>2. QED
  BY <1>1, StoreInvariant, PTL

\* A preview that says confirmed has its write in the ledger, with its draft and
\* its object: the attempt recorded them before it finished, under its lease.
THEOREM ConfirmedIsAudited == Spec => []DoneIsAudited
<1>1. StoreInv => DoneIsAudited
  BY DEF StoreInv, FileOK, TableOK, RecordOK, DoneIsAudited
<1>2. QED
  BY <1>1, StoreInvariant, PTL

\* A confirmed preview stays as it is for its time to live: no late finish or discard, no
\* new draft, revocation or limit replaces it, whatever fails.
THEOREM ConfirmedStays == Spec => DoneStays
<1>1. StoreInv /\ HistoryOK /\ [Next]_vars =>
        [\A p \in Previews : file[p].status = "done" /\ file[p].fresh =>
            file'[p] \in {file[p], [file[p] EXCEPT !.fresh = FALSE]}]_vars
  <2>1. SUFFICES ASSUME StoreInv, HistoryOK, [Next]_vars, NEW p \in Previews,
                        file[p].status = "done", file[p].fresh
                 PROVE  file'[p] \in {file[p], [file[p] EXCEPT !.fresh = FALSE]}
    OBVIOUS
  <2>2. KeptOrPruned(p) \/ Replaced(p)
    BY <2>1, EveryStep DEF Stepped
  <2>3. Current[p] = file[p]
    BY <2>1 DEF Current, Evicted
  <2>4. ~file[p].live
    BY <2>1 DEF HistoryOK
  <2>5. QED
    BY <2>1, <2>2, <2>3, <2>4 DEF KeptOrPruned, Replaced
<1>2. QED
  BY <1>1, InitHistory, StepHistory, StoreInvariant, PTL DEF Spec, DoneStays

\* A doubt within its time to live leaves the file only by the attempt that holds it and
\* discards it: no limit, revocation, new draft or lapsed lease drops it.
THEOREM DoubtStays == Spec => DoubtIsKept
<1>1. StoreInv /\ HistoryOK /\ [Next]_vars =>
        [\A p \in Previews : InDoubt(Current[p]) /\ file'[p].status = "absent" =>
            \E a \in Attempts : file[p].attempt = a /\ confirming[a].pc = "discard"]_vars
  <2>1. SUFFICES ASSUME StoreInv, HistoryOK, [Next]_vars, NEW p \in Previews,
                        InDoubt(Current[p]), file'[p].status = "absent"
                 PROVE  \E a \in Attempts :
                            file[p].attempt = a /\ confirming[a].pc = "discard"
    OBVIOUS
  <2>2. KeptOrPruned(p) \/ Replaced(p)
    BY <2>1, EveryStep DEF Stepped
  <2>3. file[p] \in Record /\ Current[p] = Evicted(file[p])
    BY <2>1 DEF StoreInv, FileOK, TableOK, RecordOK, Current
  <2>4. Current[p].status # "absent" /\ file[p].status # "absent"
    BY <2>1, <2>3 DEF InDoubt, Evicted
  <2>5. ~KeptOrPruned(p)
    BY <2>1, <2>3, <2>4 DEF KeptOrPruned, Record
  <2>6. QED
    BY <2>1, <2>2, <2>5 DEF Replaced
<1>2. QED
  BY <1>1, InitHistory, StepHistory, StoreInvariant, PTL DEF Spec, DoubtIsKept

-----------------------------------------------------------------------------
(* One object for a draft.  An object that the search misses is accounted  *)
(* for by its record: while the draft is the one on file, the record is    *)
(* confirmed, in doubt that has not expired, or held by an attempt that    *)
(* writes no more.                                                         *)

Closed(f, c) ==
    \/ f.status = "done"
    \/ f.status = "unknown" /\ f.fresh
    \/ /\ f.status = "running" /\ (f.reconciling => f.fresh)
       /\ f.attempt # None => c[f.attempt].pc # "write"

\* With c the confirmations, n the number of drafts of p, u the objects and s those seen.
Accounted(p, f, c, n, u, s) ==
    /\ f.status \in Drafted => f.draft <= n
    /\ f.attempt # None /\ c[f.attempt].pc = "write" => ~f.reconciling
    /\ f.status \in Drafted =>
        \A o \in u : o.preview = p /\ o.draft = f.draft => o \in s \/ Closed(f, c)

NumbersOK == \A o \in objects : o.draft <= drafts[o.preview]

ObjectsOK ==
    /\ \A p \in Previews : Accounted(p, file[p], confirming, drafts[p], objects, seen)
    /\ NumbersOK
    /\ OneObjectPerDraft

\* Only an attempt that had not begun starts to write.
Calmer(c, d) == \A a \in Attempts : d[a].pc = "write" => c[a].pc \in {"write", "off"}

\* A record stays accounted for as attempts move on, drafts are counted and the index
\* catches up.
LEMMA AccountedLater ==
  ASSUME NEW p \in Previews, NEW f, NEW c, NEW w, RecordOK(p, f, c, w),
         NEW d, Calmer(c, d), NEW n \in Nat, NEW m \in Nat, n <= m,
         NEW u, NEW s, NEW v, s \subseteq v, Accounted(p, f, c, n, u, s)
  PROVE  Accounted(p, f, d, m, u, v)
<1>1. f.attempt # None =>
        f.attempt \in Attempts /\ (d[f.attempt].pc = "write" => c[f.attempt].pc = "write")
  BY DEF RecordOK, Record, Calmer
<1>2. f.status \in Drafted => f.draft <= m
  <2>1. f.draft \in Nat
    BY PreviewConstants DEF RecordOK, Record
  <2>2. f.status \in Drafted => f.draft <= n
    BY DEF Accounted
  <2>3. QED
    BY <2>1, <2>2
<1>3. Closed(f, c) => Closed(f, d)
  BY <1>1 DEF Closed
<1>4. QED
  BY <1>1, <1>2, <1>3 DEF Accounted

\* An attempt that ends in doubt, whose objects the search may miss, is in a doubt that
\* has not expired.
LEMMA DoubtedAccounted ==
  ASSUME NEW p \in Previews, NEW f, NEW c, NEW w, RecordOK(p, f, c, w), f.status = "running",
         NEW n, NEW u, NEW s, Accounted(p, f, c, n, u, s), NEW d
  PROVE  Accounted(p, Doubted(f), d, n, u, s)
<1>1. /\ Doubted(f).status = "unknown" /\ Doubted(f).attempt = None
      /\ Doubted(f).draft = f.draft
      /\ Doubted(f).fresh = (f.reconciling => f.fresh)
  BY DEF Doubted, RecordOK, Record
<1>2. Closed(f, c) => Closed(Doubted(f), d)
  BY <1>1 DEF Closed
<1>3. QED
  BY <1>1, <1>2 DEF Accounted, Drafted

\* Pruning keeps a record accounted for: a doubt expires into a draft only once its
\* objects are seen.
LEMMA AccountedEvicted ==
  ASSUME NEW p \in Previews, NEW f, NEW c, NEW w, RecordOK(p, f, c, w),
         NEW n, NEW u, NEW s, Accounted(p, f, c, n, u, s)
  PROVE  Accounted(p, Evicted(f), c, n, u, s)
<1>1. Absent.status = "absent" /\ Absent.attempt = None
  BY DEF Absent
<1>2. Accounted(p, Absent, c, n, u, s)
  BY <1>1 DEF Accounted, Drafted
<1>3. CASE f.status = "unknown" /\ ~f.fresh
  <2>1. ~Closed(f, c) /\ f.status \in Drafted
    BY <1>3 DEF Closed, Drafted
  <2>2. /\ Ready(f.draft).status = "ready" /\ Ready(f.draft).attempt = None
        /\ Ready(f.draft).draft = f.draft
    BY DEF Ready, Absent
  <2>3. Accounted(p, Ready(f.draft), c, n, u, s)
    BY <2>1, <2>2 DEF Accounted
  <2>4. QED
    BY <1>3, <2>3 DEF Evicted
<1>4. CASE f.status = "running" /\ ~f.live
  <2>1. Evicted(f) = Doubted(f)
    BY <1>4 DEF Evicted
  <2>2. QED
    BY <1>4, <2>1, DoubtedAccounted
<1>5. CASE ~(f.status = "unknown" /\ ~f.fresh) /\ ~(f.status = "running" /\ ~f.live)
  <2>1. Evicted(f) \in {f, Absent}
    BY <1>5 DEF Evicted
  <2>2. QED
    BY <1>2, <2>1
<1>6. QED
  BY <1>3, <1>4, <1>5

\* The invariant after a step that makes no object: each record is as it was, pruned, or
\* accounted for.
LEMMA FileAccounted ==
  ASSUME StoreInv, StoreInv', ObjectsOK, Calmer(confirming, confirming'),
         \A p \in Previews : drafts[p] <= drafts'[p],
         objects' = objects, seen \subseteq seen',
         \A p \in Previews :
            \/ file'[p] \in {file[p], Current[p]}
            \/ Accounted(p, file'[p], confirming', drafts'[p], objects', seen')
  PROVE  ObjectsOK'
<1>1. /\ \A p \in Previews : drafts[p] \in Nat /\ drafts'[p] \in Nat
      /\ objects \subseteq Object
  BY PreviewConstants DEF StoreInv, RestOK
<1>2. ASSUME NEW p \in Previews
      PROVE  Accounted(p, file'[p], confirming', drafts'[p], objects', seen')
  <2>1. /\ RecordOK(p, file[p], confirming, audit)
        /\ Accounted(p, file[p], confirming, drafts[p], objects, seen)
        /\ Current[p] = Evicted(file[p])
    BY DEF StoreInv, FileOK, TableOK, ObjectsOK, Current
  <2>2. /\ RecordOK(p, Evicted(file[p]), confirming, audit)
        /\ Accounted(p, Evicted(file[p]), confirming, drafts[p], objects, seen)
    BY <2>1, EvictedOK, AccountedEvicted
  <2>3. CASE file'[p] = file[p]
    <3>1. Accounted(p, file[p], confirming', drafts'[p], objects, seen')
      BY <1>1, <2>1, AccountedLater
    <3>2. QED
      BY <2>3, <3>1
  <2>4. CASE file'[p] = Evicted(file[p])
    <3>1. Accounted(p, Evicted(file[p]), confirming', drafts'[p], objects, seen')
      BY <1>1, <2>2, AccountedLater
    <3>2. QED
      BY <2>4, <3>1
  <2>5. QED
    BY <2>1, <2>3, <2>4
<1>3. NumbersOK'
  <2>1. SUFFICES ASSUME NEW o \in objects PROVE o.draft <= drafts'[o.preview]
    BY DEF NumbersOK
  <2>2. o.draft \in Nat /\ o.preview \in Previews /\ o.draft <= drafts[o.preview]
    BY <1>1 DEF ObjectsOK, NumbersOK, Object, Drafts
  <2>3. QED
    BY <1>1, <2>2
<1>4. OneObjectPerDraft'
  BY DEF ObjectsOK, OneObjectPerDraft
<1>5. QED
  BY <1>2, <1>3, <1>4 DEF ObjectsOK

\* After a write of what was read with one record changed, and room made for it.
LEMMA WriteAccounted ==
  ASSUME StoreInv, StoreInv', ObjectsOK, Calmer(confirming, confirming'),
         \A p \in Previews : drafts[p] <= drafts'[p], UNCHANGED github,
         NEW q \in Previews, NEW f,
         Accounted(q, f, confirming', drafts'[q], objects, seen),
         NEW t \in Fitted(q, f) \cup {With(q, f)}, SaveOrNot(t)
  PROVE  ObjectsOK'
<1>1. \A p \in Previews : With(q, f)[p] = IF p = q THEN f ELSE Current[p]
  BY DEF With, Current
<1>2. file' = file \/ file' = t
  BY DEF SaveOrNot, Save, SaveFails
<1>3. Absent.status = "absent" /\ Absent.attempt = None
  BY DEF Absent
<1>4. \A p \in Previews : Accounted(p, Absent, confirming', drafts'[p], objects, seen)
  BY <1>3 DEF Accounted, Drafted
<1>5. ASSUME NEW p \in Previews PROVE t[p] \in {With(q, f)[p], Absent}
  <2>1. DOMAIN With(q, f) = Previews
    BY DEF With, Current
  <2>2. CASE t = With(q, f)
    BY <2>2
  <2>3. CASE \E r \in Previews : t = [With(q, f) EXCEPT ![r] = Absent]
    BY <2>1, <2>3
  <2>4. QED
    BY <2>2, <2>3 DEF Fitted, Spare, Held
<1>6. \A p \in Previews :
            \/ file'[p] \in {file[p], Current[p]}
            \/ Accounted(p, file'[p], confirming', drafts'[p], objects, seen)
  BY <1>1, <1>2, <1>4, <1>5
<1>7. objects' = objects /\ seen' = seen
  BY DEF github
<1>8. QED
  BY <1>6, <1>7, FileAccounted

\* The index catching up, time passing and a death of the process.
LEMMA QuietAccounted ==
  ASSUME StoreInv, StoreInv', ObjectsOK,
         \/ Read \/ Crash \/ UNCHANGED vars
         \/ \E p \in Previews : Lapse(p) \/ Age(p)
         \/ \E o \in objects : Index(o)
  PROVE  ObjectsOK'
<1>1. \A p \in Previews : drafts[p] <= drafts[p]
  BY PreviewConstants DEF StoreInv, RestOK
<1>2. Calmer(confirming, confirming)
  BY DEF Calmer
<1>3. \A p \in Previews : /\ file[p] \in Record
                          /\ Accounted(p, file[p], confirming, drafts[p], objects, seen)
  BY DEF StoreInv, FileOK, TableOK, RecordOK, ObjectsOK
<1>4. DOMAIN file = Previews
  BY DEF StoreInv, FileOK, TableOK
<1>5. CASE Read
  <2>1. file' \in {file, Current} /\ UNCHANGED <<confirming, drafts, objects, seen>>
    BY <1>5 DEF Read, SaveOrNot, Save, SaveFails, github
  <2>2. QED
    BY <1>1, <1>2, <2>1, FileAccounted
<1>6. CASE UNCHANGED vars \/ \E o \in objects : Index(o)
  <2>1. UNCHANGED <<file, confirming, drafts, objects>> /\ seen \subseteq seen'
    BY <1>6 DEF vars, github, Index
  <2>2. QED
    BY <1>1, <1>2, <2>1, FileAccounted
<1>7. CASE Crash
  <2>1. UNCHANGED <<file, drafts, objects, seen>>
    BY <1>7 DEF Crash, github
  <2>2. Calmer(confirming, confirming')
    BY <1>7 DEF Crash, Calmer, Over, Unstarted
  <2>3. QED
    BY <1>1, <2>1, <2>2, FileAccounted
<1>8. ASSUME NEW q \in Previews, Lapse(q) PROVE ObjectsOK'
  <2>1. UNCHANGED <<confirming, drafts, objects, seen>>
    BY <1>8 DEF Lapse, github
  <2>2. \A p \in Previews :
            file'[p] = IF p = q THEN [file[q] EXCEPT !.live = FALSE] ELSE file[p]
    BY <1>4, <1>8 DEF Lapse
  <2> DEFINE f == [file[q] EXCEPT !.live = FALSE]
  <2>3. /\ f.status = file[q].status /\ f.draft = file[q].draft
        /\ f.attempt = file[q].attempt /\ f.reconciling = file[q].reconciling
        /\ f.fresh = file[q].fresh
    BY <1>3 DEF Record
  <2> HIDE DEF f
  <2>4. Accounted(q, f, confirming, drafts[q], objects, seen)
    BY <1>3, <2>3 DEF Accounted, Closed
  <2>5. QED
    BY <1>1, <1>2, <2>1, <2>2, <2>4, FileAccounted DEF f
<1>9. ASSUME NEW q \in Previews, Age(q) PROVE ObjectsOK'
  <2>1. /\ UNCHANGED <<confirming, drafts, objects, seen>>
        /\ \A o \in objects : o.preview = q => o \in seen
    BY <1>9 DEF Age, github
  <2>2. \A p \in Previews :
            file'[p] = IF p = q THEN [file[q] EXCEPT !.fresh = FALSE] ELSE file[p]
    BY <1>4, <1>9 DEF Age
  <2> DEFINE f == [file[q] EXCEPT !.fresh = FALSE]
  <2>3. /\ f.status = file[q].status /\ f.draft = file[q].draft
        /\ f.attempt = file[q].attempt /\ f.reconciling = file[q].reconciling
    BY <1>3 DEF Record
  <2> HIDE DEF f
  <2>4. Accounted(q, f, confirming, drafts[q], objects, seen)
    BY <1>3, <2>1, <2>3 DEF Accounted
  <2>5. QED
    BY <1>1, <1>2, <2>1, <2>2, <2>4, FileAccounted DEF f
<1>10. QED
  BY <1>5, <1>6, <1>7, <1>8, <1>9

\* A new draft has a number no object has; a reservation or nothing has none.
LEMMA DraftAccounted ==
  ASSUME StoreInv, StoreInv', ObjectsOK,
         \/ \E p \in Previews : Stash(p) \/ Revoke(p)
         \/ \E g \in Generators : Generate(g)
  PROVE  ObjectsOK'
<1>1. /\ drafts \in [Previews -> Nat] /\ objects \subseteq Object
      /\ \A p \in Previews : drafts[p] <= drafts[p]
  BY PreviewConstants DEF StoreInv, RestOK
<1>2. UNCHANGED confirming /\ UNCHANGED github /\ objects' = objects /\ seen' = seen
  BY DEF Stash, Revoke, Generate, Reserve, Complete, GenerationFails, CancelReservation,
         GenStep, github
<1>3. Calmer(confirming, confirming')
  BY <1>2 DEF Calmer
<1>4. /\ Absent.status = "absent" /\ Absent.attempt = None
      /\ Reserved.status = "generating" /\ Reserved.attempt = None
      /\ \A n : Ready(n).status = "ready" /\ Ready(n).attempt = None /\ Ready(n).draft = n
  BY DEF Absent, Reserved, Ready
<1>5. \A p \in Previews, n \in Nat : /\ Accounted(p, Absent, confirming', n, objects, seen)
                                     /\ Accounted(p, Reserved, confirming', n, objects, seen)
  BY <1>4 DEF Accounted, Drafted
<1>6. ASSUME NEW p \in Previews, NEW n \in Nat, n > drafts[p]
      PROVE  Accounted(p, Ready(n), confirming', n, objects, seen)
  <2>1. ASSUME NEW o \in objects, o.preview = p, o.draft = n PROVE FALSE
    <3>1. drafts[p] \in Nat /\ n <= drafts[p]
      BY <1>1, <2>1 DEF ObjectsOK, NumbersOK
    <3>2. QED
      BY <1>6, <3>1
  <2>2. QED
    BY <1>4, <2>1 DEF Accounted
<1>7. ASSUME NEW p \in Previews, Stash(p) PROVE ObjectsOK'
  <2>1. PICK t \in Fitted(p, Ready(1)) : SaveOrNot(t)
    BY <1>7 DEF Stash
  <2>2. drafts[p] = 0 /\ drafts' = [drafts EXCEPT ![p] = 1]
    BY <1>7 DEF Stash
  <2>3. drafts'[p] = 1 /\ \A q \in Previews : drafts[q] <= drafts'[q]
    BY <1>1, <2>2
  <2>4. Accounted(p, Ready(1), confirming', drafts'[p], objects, seen)
    BY <1>6, <2>2, <2>3
  <2>5. QED
    BY <1>2, <1>3, <2>1, <2>3, <2>4, WriteAccounted
<1>8. ASSUME NEW p \in Previews, Revoke(p) PROVE ObjectsOK'
  <2>1. SaveOrNot(With(p, Absent)) /\ drafts' = drafts
    BY <1>8 DEF Revoke
  <2>2. Accounted(p, Absent, confirming', drafts'[p], objects, seen)
    BY <1>1, <1>5, <2>1
  <2>3. QED
    BY <1>1, <1>2, <1>3, <2>1, <2>2, WriteAccounted
<1>9. ASSUME NEW g \in Generators, Generate(g) PROVE ObjectsOK'
  <2> DEFINE q == generating[g].preview
  <2>1. generating[g].pc # "off" => q \in Previews
    BY DEF StoreInv, RestOK
  <2>2. CASE \E p \in Previews : Reserve(g, p)
    <3>1. PICK p \in Previews : Reserve(g, p)
      BY <2>2
    <3>2. PICK t \in Fitted(p, Reserved) : SaveOrNot(t)
      BY <3>1 DEF Reserve, SaveOrNot
    <3>3. drafts' = drafts
      BY <3>1 DEF Reserve
    <3>4. Accounted(p, Reserved, confirming', drafts'[p], objects, seen)
      BY <1>1, <1>5, <3>3
    <3>5. QED
      BY <1>1, <1>2, <1>3, <3>2, <3>3, <3>4, WriteAccounted
  <2>3. CASE Complete(g)
    <3> DEFINE n == drafts[q] + 1
    <3>1. q \in Previews /\ drafts' = [drafts EXCEPT ![q] = n] /\ SaveOrNot(With(q, Ready(n)))
      BY <2>1, <2>3 DEF Complete, GenStep, SaveOrNot
    <3>2. n \in Nat /\ n > drafts[q]
      BY <1>1, <3>1
    <3>3. drafts'[q] = n /\ \A p \in Previews : drafts[p] <= drafts'[p]
      BY <1>1, <3>1
    <3>4. Accounted(q, Ready(n), confirming', n, objects, seen)
      BY <1>6, <3>1, <3>2
    <3> HIDE DEF n
    <3>5. QED
      BY <1>2, <1>3, <3>1, <3>3, <3>4, WriteAccounted
  <2>4. CASE GenerationFails(g)
    BY <1>1, <1>2, <1>3, <2>4, FileAccounted DEF GenerationFails
  <2>5. CASE CancelReservation(g)
    <3>1. q \in Previews /\ drafts' = drafts
      BY <2>1, <2>5 DEF CancelReservation, GenStep
    <3>2. CASE SaveOrNot(With(q, Absent))
      <4>1. Accounted(q, Absent, confirming', drafts'[q], objects, seen)
        BY <1>1, <1>5, <3>1
      <4>2. QED
        BY <1>1, <1>2, <1>3, <3>1, <3>2, <4>1, WriteAccounted
    <3>3. CASE SaveOrNot(Current)
      <4>1. file' \in {file, Current}
        BY <3>3 DEF SaveOrNot, Save, SaveFails
      <4>2. QED
        BY <1>1, <1>2, <1>3, <3>1, <4>1, FileAccounted
    <3>4. QED
      BY <2>5, <3>2, <3>3 DEF CancelReservation
  <2>6. QED
    BY <1>9, <2>2, <2>3, <2>4, <2>5 DEF Generate
<1>10. QED
  BY <1>7, <1>8, <1>9

\* Where an attempt that is under way goes it starts no second write.
LEMMA ContinueCalmer ==
  ASSUME StoreInv, NEW a \in Attempts, NEW x, Continue(a, x),
         x.pc = "write" => confirming[a].pc \in {"write", "off"}
  PROVE  /\ Calmer(confirming, confirming')
         /\ \A b \in Attempts : confirming'[b] = IF b = a THEN x ELSE confirming[b]
BY DEF Continue, Calmer, StoreInv, ConfirmingOK

\* A lease is taken on a draft whose objects are all seen, or to look up a doubt.
LEMMA BeginAccounted ==
  ASSUME StoreInv, StoreInv', ObjectsOK, NEW a \in Attempts, NEW q \in Previews, Begin(a, q)
  PROVE  ObjectsOK'
<1> DEFINE f == Current[q]
           reconcile == f.status = "unknown"
           held == [f EXCEPT !.status = "running", !.attempt = a,
                             !.reconciling = reconcile, !.live = TRUE]
           x == [Unstarted EXCEPT !.pc = IF reconcile THEN "search" ELSE "write",
                                  !.preview = q, !.draft = f.draft]
<1>1. /\ confirming[a].pc = "off" /\ f.status \in {"ready", "unknown"}
      /\ SaveOrNot(With(q, held)) /\ (Continue(a, x) \/ Continue(a, Over))
      /\ UNCHANGED <<drafts, objects, seen, tracked>>
  BY DEF Begin, ConfStep, Startable, StartableAlone, SaveOrNot, github
<1>2. x.pc = (IF reconcile THEN "search" ELSE "write") /\ Over.pc = "over"
  BY DEF Unstarted, Over
<1>3. /\ Calmer(confirming, confirming')
      /\ confirming'[a].pc = "write" => ~reconcile
  <2>1. CASE Continue(a, x)
    <3> HIDE DEF x
    <3>1. QED
      BY <1>1, <1>2, <2>1, ContinueCalmer
  <2>2. CASE Continue(a, Over)
    BY <1>1, <1>2, <2>2, ContinueCalmer
  <2>3. QED
    BY <1>1, <2>1, <2>2
<1>4. /\ Current[q] = Evicted(file[q]) /\ RecordOK(q, file[q], confirming, audit)
      /\ Accounted(q, file[q], confirming, drafts[q], objects, seen)
  BY DEF Current, StoreInv, FileOK, TableOK, ObjectsOK
<1>5. f \in Record /\ Accounted(q, f, confirming, drafts[q], objects, seen)
  <2>1. Accounted(q, Evicted(file[q]), confirming, drafts[q], objects, seen)
    BY <1>4, AccountedEvicted
  <2>2. RecordOK(q, Evicted(file[q]), confirming, audit)
    BY <1>4, EvictedOK
  <2>3. QED
    BY <1>4, <2>1, <2>2 DEF RecordOK
<1>6. /\ held.status = "running" /\ held.attempt = a /\ held.draft = f.draft
      /\ held.reconciling = reconcile /\ held.fresh = f.fresh
  BY <1>5 DEF Record
<1>7. Accounted(q, held, confirming', drafts'[q], objects, seen)
  <2>1. f.draft <= drafts'[q]
    BY <1>1, <1>5 DEF Accounted, Drafted
  <2>2. ASSUME NEW o \in objects, o.preview = q, o.draft = held.draft, o \notin seen
        PROVE  Closed(held, confirming')
    <3>1. Closed(f, confirming)
      BY <1>1, <1>5, <1>6, <2>2 DEF Accounted, Drafted
    <3>2. reconcile /\ f.fresh
      BY <1>1, <3>1 DEF Closed
    <3>3. confirming'[a].pc # "write"
      BY <1>3, <3>2
    <3>4. QED
      BY <1>6, <3>2, <3>3 DEF Closed
  <2> HIDE DEF held, f
  <2>3. QED
    BY <1>3, <1>6, <2>1, <2>2 DEF Accounted
<1>8. \A p \in Previews : drafts[p] <= drafts'[p]
  BY <1>1, PreviewConstants DEF StoreInv, RestOK
<1> HIDE DEF held, f, x
<1>9. QED
  BY <1>1, <1>3, <1>7, <1>8, WriteAccounted DEF github

\* An attempt that finds, gives up or records makes no object.
LEMMA AskAccounted ==
  ASSUME StoreInv, StoreInv', ObjectsOK, NEW a \in Attempts,
         \/ AdoptObject(a) \/ WriteFails(a) \/ Reject(a)
         \/ ReconcileEntry(a) \/ RecordBotWrite(a)
  PROVE  ObjectsOK'
<1>1. /\ UNCHANGED <<file, drafts, objects, seen>>
      /\ \E pc \in {"audit", "finish", "discard"} : \E o : To(a, pc, o)
  BY DEF AdoptObject, WriteFails, Reject, ReconcileEntry, RecordBotWrite, ConfStep, github
<1>2. PICK pc \in {"audit", "finish", "discard"} : \E o : To(a, pc, o)
  BY <1>1
<1>3. PICK o : To(a, pc, o)
  BY <1>2
<1>4. Calmer(confirming, confirming')
  <2>1. [confirming[a] EXCEPT !.pc = pc, !.object = o].pc = pc
    BY DEF StoreInv, ConfirmingOK, Confirmation
  <2>2. QED
    BY <1>3, <2>1, ContinueCalmer DEF To
<1>5. \A p \in Previews : drafts[p] <= drafts'[p]
  BY <1>1, PreviewConstants DEF StoreInv, RestOK
<1>6. QED
  BY <1>1, <1>4, <1>5, FileAccounted

\* The attempt that creates holds the lease on the draft, in time, and found nothing: there
\* is no object of this draft, seen or missed.
LEMMA CreateAccounted ==
  ASSUME StoreInv, StoreInv', ObjectsOK, NEW a \in Attempts, CreateObject(a)
  PROVE  ObjectsOK'
<1> DEFINE q == confirming[a].preview
           o == [attempt |-> a, preview |-> q, draft |-> confirming[a].draft]
<1>1. /\ confirming[a].pc = "write" /\ InTime(a) /\ Known(a) = {}
      /\ UNCHANGED <<file, drafts>>
      /\ objects' = objects \cup {o} /\ seen \subseteq seen'
      /\ (\E u : To(a, "audit", u)) \/ To(a, "finish", None)
  BY DEF CreateObject, ConfStep
<1>2. PICK pc \in {"audit", "finish"} : \E v : To(a, pc, v)
  BY <1>1
<1>3. PICK v : To(a, pc, v)
  BY <1>2
<1>4. Calmer(confirming, confirming') /\ confirming'[a].pc # "write"
  <2>1. [confirming[a] EXCEPT !.pc = pc, !.object = v].pc = pc
    BY DEF StoreInv, ConfirmingOK, Confirmation
  <2>2. QED
    BY <1>3, <2>1, ContinueCalmer DEF To
<1>5. q \in Previews /\ file[q].attempt = a /\ a # None
  BY <1>1, PreviewConstants DEF InTime, StoreInv, ConfirmingOK
<1>6. \A p \in Previews : /\ RecordOK(p, file[p], confirming, audit)
                          /\ Accounted(p, file[p], confirming, drafts[p], objects, seen)
  BY DEF StoreInv, FileOK, TableOK, ObjectsOK
<1>7. /\ file[q].status = "running" /\ file[q].draft = confirming[a].draft
      /\ ~file[q].reconciling /\ file[q].draft <= drafts[q]
  BY <1>1, <1>5, <1>6 DEF RecordOK, Accounted, Drafted
<1>8. ASSUME NEW u \in objects, u.preview = q, u.draft = confirming[a].draft PROVE FALSE
  <2>1. u \in seen => u \in Known(a)
    BY <1>1, <1>8 DEF Known, Ours, SameAction
  <2>2. Closed(file[q], confirming)
    BY <1>1, <1>5, <1>6, <1>7, <1>8, <2>1 DEF Accounted, Drafted
  <2>3. QED
    BY <1>1, <1>5, <1>7, <2>2 DEF Closed
<1>9. OneObjectPerDraft'
  <2>1. o.preview = q /\ o.draft = confirming[a].draft
    OBVIOUS
  <2> HIDE DEF o
  <2>2. QED
    BY <1>1, <1>8, <2>1 DEF ObjectsOK, OneObjectPerDraft
<1>10. NumbersOK'
  <2>1. o.draft <= drafts[o.preview]
    BY <1>7
  <2> HIDE DEF o
  <2>2. QED
    BY <1>1, <2>1 DEF ObjectsOK, NumbersOK
<1>11. ASSUME NEW p \in Previews
       PROVE  Accounted(p, file[p], confirming', drafts[p], objects', seen')
  <2>1. drafts[p] \in Nat /\ drafts[p] <= drafts[p]
    BY PreviewConstants DEF StoreInv, RestOK
  <2>2. Accounted(p, file[p], confirming', drafts[p], objects, seen')
    BY <1>1, <1>4, <1>6, <2>1, AccountedLater
  <2>3. p = q => Closed(file[q], confirming')
    BY <1>4, <1>5, <1>7 DEF Closed
  <2>4. o.preview = q
    OBVIOUS
  <2> HIDE DEF o
  <2>5. QED
    BY <1>1, <2>2, <2>3, <2>4 DEF Accounted
<1>12. QED
  BY <1>1, <1>9, <1>10, <1>11 DEF ObjectsOK

\* An attempt that ends leaves a confirmed record, a doubt that has not expired, or none.
LEMMA EndAccounted ==
  ASSUME StoreInv, StoreInv', ObjectsOK, NEW a \in Attempts, Finish(a) \/ Discard(a)
  PROVE  ObjectsOK'
<1> DEFINE q == confirming[a].preview
           f == IF confirming[a].pc = "finish" THEN Finished(Current[q], confirming[a].object)
                ELSE Absent
<1>1. /\ q \in Previews /\ Continue(a, Over)
      /\ UNCHANGED <<drafts, objects, seen, tracked>>
      /\ SaveOrNot(IF HoldsLease(a) THEN With(q, f) ELSE Current)
  BY DEF Finish, Discard, ConfStep, StoreInv, ConfirmingOK, github
<1>2. Calmer(confirming, confirming')
  <2>1. Over.pc = "over"
    BY DEF Over, Unstarted
  <2>2. QED
    BY <1>1, <2>1, ContinueCalmer
<1>3. \A p \in Previews : drafts[p] <= drafts'[p]
  BY <1>1, PreviewConstants DEF StoreInv, RestOK
<1>4. CASE HoldsLease(a)
  <2>1. /\ Current[q] = Evicted(file[q]) /\ RecordOK(q, file[q], confirming, audit)
        /\ Accounted(q, file[q], confirming, drafts[q], objects, seen)
    BY <1>1 DEF Current, StoreInv, FileOK, TableOK, ObjectsOK
  <2>2. /\ RecordOK(q, Current[q], confirming, audit) /\ Current[q].status = "running"
        /\ Accounted(q, Current[q], confirming, drafts[q], objects, seen)
    BY <1>1, <1>4, <2>1, EvictedOK, AccountedEvicted DEF HoldsLease
  <2>3. Accounted(q, Absent, confirming', drafts'[q], objects, seen)
    BY DEF Accounted, Absent, Drafted
  <2>4. Accounted(q, Doubted(Current[q]), confirming', drafts'[q], objects, seen)
    BY <1>1, <2>2, DoubtedAccounted
  <2> DEFINE done == [Ready(Current[q].draft) EXCEPT !.status = "done",
                                                     !.object = confirming[a].object]
  <2>5. Accounted(q, done, confirming', drafts'[q], objects, seen)
    <3>1. done.status = "done" /\ done.attempt = None /\ done.draft = Current[q].draft
      BY DEF Ready, Absent
    <3>2. Current[q].draft <= drafts'[q]
      BY <1>1, <2>2 DEF Accounted, Drafted
    <3> HIDE DEF done
    <3>3. QED
      BY <3>1, <3>2 DEF Accounted, Closed
  <2>6. Accounted(q, f, confirming', drafts'[q], objects, seen)
    BY <2>3, <2>4, <2>5 DEF Finished
  <2>7. SaveOrNot(With(q, f))
    BY <1>1, <1>4
  <2> HIDE DEF f
  <2>8. QED
    BY <1>1, <1>2, <1>3, <2>6, <2>7, WriteAccounted DEF github
<1>5. CASE ~HoldsLease(a)
  <2>1. file' \in {file, Current}
    BY <1>1, <1>5 DEF SaveOrNot, Save, SaveFails
  <2>2. QED
    BY <1>1, <1>2, <1>3, <2>1, FileAccounted
<1>6. QED
  BY <1>4, <1>5

\* Every action of Next keeps the objects accounted for.
LEMMA StepAccounted == StoreInv /\ StoreInv' /\ ObjectsOK /\ [Next]_vars => ObjectsOK'
<1>1. SUFFICES ASSUME StoreInv, StoreInv', ObjectsOK, [Next]_vars PROVE ObjectsOK'
  OBVIOUS
<1>2. ASSUME NEW a \in Attempts, Confirm(a) PROVE ObjectsOK'
  BY <1>1, <1>2, BeginAccounted, AskAccounted, CreateAccounted, EndAccounted DEF Confirm
<1>3. QED
  BY <1>1, <1>2, QuietAccounted, DraftAccounted DEF Next

\* However often a draft is confirmed, and however its confirmations end, it becomes one
\* issue or pull request, for any number of attempts, crashes, failed writes and lost saves
\* of the tracking state: an object the search misses keeps its record from being written
\* again until the doubt expires, and that takes an index that has caught up.
THEOREM DraftMakesOne == Spec => []OneObjectPerDraft
<1>1. Init => ObjectsOK
  <2>1. Absent.status = "absent" /\ Absent.attempt = None
    BY DEF Absent
  <2>2. QED
    BY <2>1 DEF Init, ObjectsOK, Accounted, NumbersOK, OneObjectPerDraft, Drafted
<1>2. StoreInv /\ StoreInv' /\ ObjectsOK /\ [Next]_vars => ObjectsOK'
  BY StepAccounted
<1>3. ObjectsOK => OneObjectPerDraft
  BY DEF ObjectsOK
<1>4. QED
  BY <1>1, <1>2, <1>3, StoreInvariant, PTL DEF Spec
=============================================================================
