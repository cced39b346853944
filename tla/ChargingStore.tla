---------------------------- MODULE ChargingStore ---------------------------
(***************************************************************************)
(* The charging tables of the phone: the cached spots (rows), the outbox   *)
(* of operations the rider has asked for, the cursor into the server's     *)
(* changes, and the state of the community account.  One operator per      *)
(* transaction; those whose result the caller looks at return the tables   *)
(* and a status.                                                           *)
(*                                                                         *)
(* A row is known by its point: a positive number for a spot of the rider, *)
(* the negated spot id for one that came with the directory.  A call that  *)
(* carries an outdated local_revision is refused and left out, and with it *)
(* the revision.  pinned says that the point is in the spatial index,      *)
(* which is what the map draws.                                            *)
(***************************************************************************)
EXTENDS Integers, CommunityServer  \* an Entry is the server's

CONSTANTS Capacity  \* CHARGING_OUTBOX_CAPACITY, 1024 in the code

NewStore == [account |-> "Active", rows |-> <<>>, outbox |-> <<>>, cursor |-> 0]

Done(d) == [db |-> d, status |-> "Ok"]
Fail(d, status) == [db |-> d, status |-> status]

Visible(status) == status \in {"Queued", "Published"}
CarriesFields(op) == op.kind \in {"Create", "Edit"}
PendingOf(d, point) == {i \in DOMAIN d.outbox : d.outbox[i].point = point}
PendingFields(d, point) == \E i \in PendingOf(d, point) : CarriesFields(d.outbox[i])
PendingWithdrawal(d, point) == \E i \in PendingOf(d, point) : d.outbox[i].kind = "Withdraw"

(* find_remote: the point that caches a spot of the server.                *)
HasRemote(d, spot) == \E p \in DOMAIN d.rows : d.rows[p].remote = spot
FindRemote(d, spot) == CHOOSE p \in DOMAIN d.rows : d.rows[p].remote = spot

SetRow(d, point, row) == [d EXCEPT !.rows = (point :> row) @@ @]

Operation(id, point, kind, input, target) ==
    [id |-> id, point |-> point, kind |-> kind, input |-> input, target |-> target,
     blocked |-> None, draft |-> None, remote |-> None]

(* queue: ensure_active and the capacity are checked in the transaction of *)
(* the change, which they undo.                                            *)
CanQueue(d) == d.account = "Active" /\ Len(d.outbox) < Capacity

(* save.                                                                   *)
Save(d, id, point, input) ==
    [SetRow(d, point, [input |-> input, owned |-> TRUE, status |-> "Queued", remote |-> None,
                       revision |-> 0, change |-> 0, ack |-> None, pinned |-> TRUE])
       EXCEPT !.outbox = Append(@, Operation(id, point, "Create", input, None))]

(* CheckedChange::new for an edit or a withdrawal.                         *)
CanChange(d, point) ==
    /\ d.rows[point].owned
    /\ Visible(d.rows[point].status) \/ d.rows[point].status = "Hidden"

(* change with CheckedChange::apply.                                       *)
Change(d, id, point, kind, input) ==
    LET row == d.rows[point]
        changed == IF kind = "Edit"
                   THEN [row EXCEPT !.input = input, !.pinned = Visible(row.status)]
                   ELSE [row EXCEPT !.input = None, !.pinned = FALSE, !.status = "Withdrawn"]
    IN  [SetRow(d, point, changed)
           EXCEPT !.outbox = Append(@, Operation(id, point, kind, input, None))]

-----------------------------------------------------------------------------
(* What the sync pass does.                                                *)

FirstOfPoint(d, i) == \A j \in PendingOf(d, d.outbox[i].point) : j >= i

(* pending_operation: the oldest operation that is not blocked and has no  *)
(* older one for its point.                                                *)
Sendable(d) == {i \in DOMAIN d.outbox : d.outbox[i].blocked = None /\ FirstOfPoint(d, i)}
NextIndex(d) == CHOOSE i \in Sendable(d) : \A j \in Sendable(d) : i <= j

(* freeze_target: what the operation was based on, fixed once.             *)
Target(op, row) ==
    IF op.target # None THEN op.target
    ELSE IF op.kind = "Create" THEN [spot |-> None, expected |-> 0]
    ELSE [spot |-> row.remote, expected |-> row.revision]

(* next_operation.                                                         *)
NextOperation(d) ==
    IF d.account # "Active" THEN Fail(d, "Unauthorized")
    ELSE IF Sendable(d) = {} THEN Fail(d, "Empty")
    ELSE LET op == d.outbox[NextIndex(d)]
         IN  IF op.target = None /\ op.kind # "Create" /\ d.rows[op.point].remote = None
             THEN Fail(d, "Conflict")
             ELSE Done([d EXCEPT !.outbox[NextIndex(d)].target = Target(op, d.rows[op.point])])

(* apply_entry with EntryUpdate.                                           *)
ApplyEntry(row, entry, update) ==
    LET kept == IF update = "ReplaceBody" THEN entry.input ELSE row.input
        shown == IF update = "PreserveLocal" THEN row
                 ELSE [row EXCEPT !.input = kept, !.status = entry.status,
                                  !.pinned = kept # None /\ Visible(entry.status)]
    IN  [shown EXCEPT !.remote = entry.id, !.revision = entry.revision, !.change = entry.change]

(* validate_acknowledgment.                                                *)
Acknowledges(row, op, applied, entry) ==
    /\ IF op.target.spot = None THEN op.kind = "Create" /\ row.remote = None
       ELSE op.target.spot = entry.id /\ row.remote = entry.id
    /\ applied = op.target.expected + 1
    /\ entry.revision >= row.revision /\ entry.change >= row.change
    /\ Visible(row.status) \/ entry.status # "Published" \/ entry.change > row.change
    /\ entry.revision >= applied

(* acknowledge_operation.  remote_id is UNIQUE: a row of the directory     *)
(* that already caches the spot makes the transaction fail.                *)
AcknowledgeOperation(d, id, applied, entry) ==
    LET found == {i \in DOMAIN d.outbox :
                    d.outbox[i].id = id /\ d.outbox[i].blocked = None /\ FirstOfPoint(d, i)}
        op == d.outbox[CHOOSE i \in found : TRUE]
        row == d.rows[op.point]
        rest == SelectSeq(d.outbox, LAMBDA o : o.id # id)
        pending == \E i \in DOMAIN rest : rest[i].point = op.point
        published == IF pending /\ row.status = "Queued" /\ entry.status = "Published"
                     THEN [row EXCEPT !.status = "Published"] ELSE row
        update == IF pending THEN "PreserveLocal" ELSE "ReplaceBody"
    IN  IF d.account # "Active" THEN Fail(d, "Unauthorized")
        ELSE IF found = {}
        THEN IF \E p \in DOMAIN d.rows : d.rows[p].ack = id /\ d.rows[p].remote = entry.id
             THEN Done(d) ELSE Fail(d, "Conflict")
        ELSE IF op.target = None THEN Fail(d, "Conflict")
        ELSE IF ~Acknowledges(row, op, applied, entry) THEN Fail(d, "Conflict")
        ELSE IF \E p \in DOMAIN d.rows \ {op.point} : d.rows[p].remote = entry.id
        THEN Fail(d, "StorageFailure")
        ELSE Done([SetRow(d, op.point, [ApplyEntry(published, entry, update) EXCEPT !.ack = id])
                     EXCEPT !.outbox = rest])

-----------------------------------------------------------------------------
(* apply_changes_page.                                                     *)

(* review_pending_changes: which operations of the point the entry         *)
(* conflicts with.  Each is frozen on the base it had, so that it cannot   *)
(* adopt the new one unseen.                                               *)
Conflicting(d, point, entry) ==
    LET row == d.rows[point]
        base(op) == IF op.target # None /\ op.target.spot # None
                    THEN op.target.expected ELSE row.revision
    IN  {i \in PendingOf(d, point) :
           \/ ~Visible(entry.status) \/ row.status # entry.status
           \/ entry.revision > base(d.outbox[i])}

(* store_conflict, on the first of them.                                   *)
StoreConflict(op, row, entry) ==
    [op EXCEPT !.blocked = IF @ = None THEN "Conflict" ELSE @,
               !.draft = IF @ = None /\ CarriesFields(op) THEN row.input ELSE @,
               !.remote = entry]

Review(d, point, entry) ==
    LET found == Conflicting(d, point, entry)
        row == d.rows[point]
        frozen(op) == [op EXCEPT !.target = Target(op, row)]
    IN  [i \in DOMAIN d.outbox |->
          IF i \notin found THEN d.outbox[i]
          ELSE IF \A j \in found : i <= j THEN StoreConflict(frozen(d.outbox[i]), row, entry)
          ELSE frozen(d.outbox[i])]

(* update_remote_metadata without the votes.                               *)
UpdateMetadata(row, entry) ==
    [row EXCEPT !.status = entry.status, !.remote = entry.id, !.revision = entry.revision,
                !.change = entry.change, !.pinned = FALSE]

DirectoryRow(entry) ==
    [input |-> None, owned |-> FALSE, status |-> entry.status, remote |-> None,
     revision |-> 0, change |-> 0, ack |-> None, pinned |-> FALSE]

UpdateCached_ReplacesBody(d, point, entry) ==
    SetRow([d EXCEPT !.outbox = Review(d, point, entry)], point,
           ApplyEntry(d.rows[point], entry, "ReplaceBody"))

(* apply_change_entry on a spot that is cached with an older change.       *)
UpdateCached(d, point, entry) ==
    LET row == d.rows[point]
        reviewed == [d EXCEPT !.outbox = Review(d, point, entry)]
        tombstone == row.status = "Withdrawn" /\ entry.status = "Published"
        update == IF PendingFields(d, point) /\ Visible(entry.status)
                  THEN "PreserveInput" ELSE "ReplaceBody"
    IN  IF PendingOf(d, point) # {}
        THEN SetRow(reviewed, point,
               IF tombstone THEN [UpdateMetadata(row, entry) EXCEPT !.status = "Withdrawn"]
               ELSE ApplyEntry(row, entry, update))
        ELSE SetRow(d, point, IF tombstone THEN UpdateMetadata(row, entry)
                              ELSE ApplyEntry(row, entry, "ReplaceBody"))

(* apply_change_entry.                                                     *)
ApplyChangeEntry(d, entry) ==
    IF ~HasRemote(d, entry.id)
    THEN SetRow(d, 0 - entry.id, ApplyEntry(DirectoryRow(entry), entry, "ReplaceBody"))
    ELSE LET point == FindRemote(d, entry.id)
         IN  IF entry.change <= d.rows[point].change THEN d ELSE UpdateCached(d, point, entry)

(* A revision that goes back makes the whole page fail.                    *)
Regresses(d, entry) ==
    /\ HasRemote(d, entry.id)
    /\ LET row == d.rows[FindRemote(d, entry.id)]
       IN  entry.change > row.change /\ entry.revision < row.revision

ApplyChangesPage(d, page) ==
    LET new == SelectSeq(page.items, LAMBDA e : e.change > d.cursor)
    IN  IF page.next < d.cursor THEN Fail(d, "StorageFailure")
        ELSE IF \E i \in DOMAIN new : Regresses(d, new[i]) THEN Fail(d, "Conflict")
        ELSE Done([FoldLeft(ApplyChangeEntry, d, new) EXCEPT !.cursor = page.next])

(* block_operation, for an operation that has been sent.                   *)
BlockOperation(d, id, kind) ==
    LET found == {i \in DOMAIN d.outbox : d.outbox[i].id = id /\ d.outbox[i].target # None}
        i == CHOOSE i \in found : TRUE
        op == d.outbox[i]
        draft == IF op.draft = None /\ CarriesFields(op) THEN d.rows[op.point].input ELSE op.draft
    IN  IF found = {} THEN Fail(d, "Conflict")
        ELSE Done([d EXCEPT !.outbox[i].blocked = kind, !.outbox[i].draft = draft])

-----------------------------------------------------------------------------
(* What the rider decides about a blocked operation.                       *)

(* resolve_operation refuses to send again what the server turned down, or *)
(* what concerns a spot that is gone.                                      *)
Retryable(op) ==
    /\ op.blocked = "Invalid" => op.kind = "Withdraw"
    /\ op.remote # None => Visible(op.remote.status)

(* The conflict record goes with the choice.                               *)
Unblocked(op) == [op EXCEPT !.blocked = None, !.draft = None, !.remote = None]

Retry(d, i) == [d EXCEPT !.outbox[i] = Unblocked(@)]

(* RebaseKeepingLocal: a new operation, to be frozen on the current base.  *)
Rebase(d, i, id) ==
    LET op == d.outbox[i]
        row == d.rows[op.point]
        draft == IF ~CarriesFields(op) THEN None
                 ELSE IF op.draft # None THEN op.draft ELSE row.input
        drawn == IF draft = None THEN row
                 ELSE [row EXCEPT !.input = draft, !.pinned = Visible(row.status)]
    IN  [SetRow(d, op.point, drawn)
           EXCEPT !.outbox[i] = [Unblocked(op) EXCEPT !.id = id, !.target = None]]

(* remove_superseded_field_operations.                                     *)
Superseded(d, i) ==
    {i} \union {j \in PendingOf(d, d.outbox[i].point) :
                  CarriesFields(d.outbox[i]) /\ j > i /\ CarriesFields(d.outbox[j])}

Without(outbox, gone) ==
    LET kept == SetToSortSeq(DOMAIN outbox \ gone, <)
    IN  [k \in DOMAIN kept |-> outbox[kept[k]]]

(* AcceptServer without an entry of the server: only for a create that was *)
(* turned down, which takes everything queued on the point with it.        *)
CanDiscard(d, i) ==
    LET op == d.outbox[i]
    IN  op.remote = None /\ op.blocked = "Invalid" /\ op.kind = "Create"
        /\ d.rows[op.point].remote = None

Discard(d, i) ==
    LET point == d.outbox[i].point
    IN  [SetRow(d, point, [d.rows[point] EXCEPT !.status = "Withdrawn", !.pinned = FALSE])
           EXCEPT !.outbox = Without(@, PendingOf(d, point))]

(* AcceptServer with one, and restore_pending_local_state.                 *)
CanAccept(d, i) ==
    LET op == d.outbox[i]
    IN  /\ op.remote # None
        /\ op.remote.change >= d.rows[op.point].change
        /\ op.remote.revision >= d.rows[op.point].revision

Accept(d, i) ==
    LET op == d.outbox[i]
        row == d.rows[op.point]
        left == [d EXCEPT !.outbox = Without(@, Superseded(d, i))]
        accepted == ApplyEntry(row, op.remote, "ReplaceBody")
        redrafted == IF PendingFields(left, op.point) /\ Visible(op.remote.status) /\ row.input # None
                     THEN [accepted EXCEPT !.input = row.input, !.pinned = TRUE] ELSE accepted
    IN  SetRow(left, op.point,
          IF PendingWithdrawal(left, op.point)
          THEN [redrafted EXCEPT !.input = None, !.status = "Withdrawn", !.pinned = FALSE]
          ELSE redrafted)

(* replace_blocked_operation: the new draft takes the place of the blocked *)
(* one, on the base the rider has reviewed.                                *)
CanReplace(d, i) ==
    LET op == d.outbox[i]
        row == d.rows[op.point]
    IN  /\ row.owned
        /\ op.remote # None => Visible(op.remote.status)
        /\ row.status = IF row.remote = None THEN "Queued" ELSE "Published"

Replace(d, i, id, input) ==
    LET op == d.outbox[i]
        row == d.rows[op.point]
        kind == IF row.remote = None THEN "Create" ELSE "Edit"
        target == IF row.remote = None THEN None
                  ELSE [spot |-> row.remote,
                        expected |-> IF op.remote = None THEN row.revision ELSE op.remote.revision]
        placed == [d.outbox EXCEPT ![i] = Operation(id, op.point, kind, input, target)]
    IN  [SetRow(d, op.point, [row EXCEPT !.input = input, !.pinned = TRUE])
           EXCEPT !.outbox = Without(placed, Superseded(d, i) \ {i})]

-----------------------------------------------------------------------------
(* The account: AccountEvent::BeginDeletion and CompleteDeletion.          *)
BeginDeletion(d) == IF d.account = "Active" THEN [d EXCEPT !.account = "Deleting"] ELSE d

CompleteDeletion(d) ==
    IF d.account # "Deleting" THEN d
    ELSE [account |-> "Deleted", outbox |-> <<>>, cursor |-> 0,
          rows |-> [p \in DOMAIN d.rows |-> [d.rows[p] EXCEPT !.owned = FALSE, !.ack = None]]]

=============================================================================
