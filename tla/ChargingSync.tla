---------------------------- MODULE ChargingSync ----------------------------
(***************************************************************************)
(* One phone and the community server.  ChargingSyncService runs a pass of *)
(* uploads and downloads, a refresh of the public directory, or the remote *)
(* part of an account deletion, one at a time behind its gate.  The rider  *)
(* works on the local tables meanwhile, and moderators on the server.      *)
(*                                                                         *)
(* A pass is one action per await.  It can be given up at any of them: a   *)
(* network error, or the timeout of the whole pass, which drops the future *)
(* and with it the gate.  A request that was under way may still reach the *)
(* server later (net), and a database call that was under way still runs   *)
(* on its blocking thread (lingering).  A crash ends the passes and the    *)
(* database calls, and keeps the tables.                                   *)
(***************************************************************************)
EXTENDS ChargingStore

CONSTANTS Inputs,        \* contents of a spot
          MaxUploads,    \* MAX_UPLOADS_PER_SYNC, 8 in the code
          PageSize,      \* CHANGE_PAGE_SIZE
          ConflictPages, \* pages read to explain a conflict, 5 in the code
          MaxPoints,     \* bound: spots the rider saves
          MaxOperations, \* bound: operations the rider asks for and spots that others
                         \* add, together; one more operation may come of a review
          MaxSpots,      \* bound: others add no spot beyond this many
          MaxChanges,    \* bound: moderators and others stop at this change
          MaxLate        \* bound: requests and database calls that nobody waits for

VARIABLES srv, db,
          task,      \* the pass that holds the gate, or Idle
          del,       \* where the account deletion is
          net,       \* requests under way that nobody waits for
          lingering, \* database calls under way that nobody waits for
          issued,    \* operation ids handed out so far
          decided,   \* operations the rider dropped or replaced
          redrawn,   \* operations behind one whose review drew their point again
          unsent     \* points whose withdrawal the deletion took out of the outbox

vars == <<srv, db, task, del, net, lingering, issued, decided, redrawn, unsent>>

Idle == [kind |-> None, pc |-> None, op |-> None, error |-> None, reply |-> None,
         uploads |-> 0, pages |-> 0, after |-> 0, page |-> None]

Init ==
    /\ srv = NewServer /\ db = NewStore
    /\ task = Idle /\ del = "Idle"
    /\ net = {} /\ lingering = {}
    /\ issued = 0 /\ decided = {} /\ redrawn = {} /\ unsent = {}

Phone == <<task, del, net, lingering>>
History == <<issued, decided, redrawn, unsent>>

-----------------------------------------------------------------------------
(* The rider.                                                              *)

(* What MaxOperations bounds.                                              *)
Asked == issued + Cardinality({i \in DOMAIN srv.spots : srv.spots[i].origin = None})

RiderSaves(input) ==
    LET point == 1 + Cardinality({p \in DOMAIN db.rows : p > 0})
    IN  /\ point <= MaxPoints /\ Asked < MaxOperations
        /\ CanQueue(db)
        /\ issued' = issued + 1
        /\ db' = Save(db, issued', point, input)
        /\ UNCHANGED <<srv, Phone, decided, redrawn, unsent>>

RiderChanges(point, kind, input) ==
    /\ Asked < MaxOperations
    /\ CanQueue(db) /\ CanChange(db, point)
    /\ issued' = issued + 1
    /\ db' = Change(db, issued', point, kind, input)
    /\ UNCHANGED <<srv, Phone, decided, redrawn, unsent>>

Reviewable(i) == db.account = "Active" /\ db.outbox[i].blocked # None

IdsGone == {op.id : op \in Range(db.outbox)} \ {op.id : op \in Range(db'.outbox)}

(* The review of a save or an edit draws the point again, under the        *)
(* operations that wait behind it.                                         *)
Redraw(i) ==
    LET behind == {j \in PendingOf(db', db.outbox[i].point) : j > i}
    IN  redrawn' = redrawn \union {db'.outbox[j].id : j \in behind}

RiderRetries(i) ==
    /\ Reviewable(i) /\ Retryable(db.outbox[i])
    /\ db' = Retry(db, i)
    /\ UNCHANGED <<srv, Phone, History>>

RiderRebases(i) ==
    /\ Reviewable(i) /\ Retryable(db.outbox[i]) /\ Asked <= MaxOperations
    /\ issued' = issued + 1
    /\ db' = Rebase(db, i, issued')
    /\ IF CarriesFields(db.outbox[i]) THEN Redraw(i) ELSE redrawn' = redrawn
    /\ decided' = decided \union IdsGone
    /\ UNCHANGED <<srv, Phone, unsent>>

RiderAccepts(i) ==
    /\ Reviewable(i)
    /\ \/ CanDiscard(db, i) /\ db' = Discard(db, i)
       \/ CanAccept(db, i) /\ db' = Accept(db, i)
    /\ decided' = decided \union IdsGone
    /\ UNCHANGED <<srv, Phone, issued, redrawn, unsent>>

RiderReplaces(i, input) ==
    /\ Reviewable(i) /\ CanReplace(db, i) /\ Asked <= MaxOperations
    /\ issued' = issued + 1
    /\ db' = Replace(db, i, issued', input)
    /\ Redraw(i)
    /\ decided' = decided \union IdsGone
    /\ UNCHANGED <<srv, Phone, unsent>>

-----------------------------------------------------------------------------
(* A pass: synchronize_locked, or refresh without a token.                 *)
GateIsFree == task = Idle /\ del \notin {"Remote", "Complete"}

SyncBegins ==
    /\ GateIsFree /\ db.account = "Active"
    /\ task' = [Idle EXCEPT !.kind = "Sync", !.pc = "Next"]
    /\ UNCHANGED <<srv, db, del, net, lingering, History>>

RefreshBegins ==
    /\ GateIsFree /\ db.outbox = <<>>
    /\ task' = [Idle EXCEPT !.kind = "Refresh", !.pc = "Cursor"]
    /\ UNCHANGED <<srv, db, del, net, lingering, History>>

Request(op) ==
    [id |-> op.id, kind |-> op.kind, spot |-> op.target.spot, expected |-> op.target.expected,
     input |-> op.input, origin |-> op.point]

DeleteRequest ==
    [id |-> None, kind |-> "Delete", spot |-> None, expected |-> 0, input |-> None, origin |-> None]

(* The next turn of the upload loop, or the page that follows it.          *)
NextUpload == [Idle EXCEPT !.kind = "Sync", !.uploads = task.uploads + 1,
                           !.pc = IF task.uploads + 1 < MaxUploads THEN "Next" ELSE "Cursor"]

(* block_rejected_operation: a conflict is explained by the feed first.    *)
Blocking(error) ==
    [task EXCEPT !.error = error, !.reply = None,
                 !.pc = IF error = "Conflict" THEN "Cursor" ELSE "Block",
                 !.pages = IF error = "Conflict" THEN ConflictPages ELSE 0]

TakeNext ==
    /\ task.pc = "Next"
    /\ LET r == NextOperation(db)
       IN  /\ db' = r.db
           /\ task' = CASE r.status = "Ok" -> [task EXCEPT !.pc = "Sent",
                                                 !.op = r.db.outbox[NextIndex(db)]]
                        [] r.status = "Empty" -> [task EXCEPT !.pc = "Cursor"]
                        [] OTHER -> Idle
    /\ UNCHANGED <<srv, del, net, lingering, History>>

ServerReplies ==
    /\ task.pc = "Sent"
    /\ LET a == Handle(srv, Request(task.op))
       IN  /\ srv' = a.server
           /\ task' = CASE a.status = "Ok" -> [task EXCEPT !.pc = "Ack",
                             !.reply = [applied |-> a.applied, entry |-> a.entry]]
                        [] a.status = "Conflict" -> Blocking("Conflict")
                        [] a.status = "Rejected" -> Blocking("Invalid")
                        [] OTHER -> Idle
    /\ UNCHANGED <<db, del, net, lingering, History>>

Acknowledge ==
    /\ task.pc = "Ack"
    /\ LET r == AcknowledgeOperation(db, task.op.id, task.reply.applied, task.reply.entry)
       IN  /\ db' = r.db
           /\ task' = CASE r.status = "Ok" -> NextUpload
                        [] r.status = "Conflict" -> Blocking("Conflict")
                        [] OTHER -> Idle
    /\ UNCHANGED <<srv, del, net, lingering, History>>

(* download_page_locked.  Only the refresh stops at an operation that was  *)
(* queued meanwhile.                                                       *)
ReadCursor ==
    /\ task.pc = "Cursor"
    /\ task' = [task EXCEPT !.pc = "Fetch", !.after = db.cursor]
    /\ UNCHANGED <<srv, db, del, net, lingering, History>>

FetchPage ==
    /\ task.pc = "Fetch"
    /\ task' = IF task.kind = "Refresh" /\ db.outbox # <<>> THEN Idle
               ELSE [task EXCEPT !.pc = "Apply", !.page = Changes(srv, task.after, PageSize)]
    /\ UNCHANGED <<srv, db, del, net, lingering, History>>

ApplyPage ==
    /\ task.pc = "Apply"
    /\ LET r == ApplyChangesPage(db, task.page)
           left == task.pages - 1
       IN  /\ db' = r.db
           /\ task' = IF r.status # "Ok" \/ task.op = None THEN Idle
                      ELSE [task EXCEPT !.pc = IF task.page.more /\ left > 0 THEN "Cursor" ELSE "Check",
                                        !.pages = left, !.page = None, !.after = 0]
    /\ UNCHANGED <<srv, del, net, lingering, History>>

(* The rest of block_rejected_operation: a page may have blocked it.       *)
CheckBlocked ==
    /\ task.pc = "Check"
    /\ task' = IF \E op \in Range(db.outbox) : op.id = task.op.id /\ op.blocked # None
               THEN NextUpload ELSE [task EXCEPT !.pc = "Block"]
    /\ UNCHANGED <<srv, db, del, net, lingering, History>>

BlockRejected ==
    /\ task.pc = "Block"
    /\ LET r == BlockOperation(db, task.op.id, task.error)
       IN  /\ db' = r.db
           /\ task' = IF r.status = "Ok" THEN NextUpload ELSE Idle
    /\ UNCHANGED <<srv, del, net, lingering, History>>

(* The pass ends early, by an error of the network or by its timeout.      *)
InFlight == IF task.pc = "Sent" THEN {Request(task.op)} ELSE {}

Calls ==
    IF task.pc \notin {"Next", "Ack", "Apply", "Block"} THEN {}
    ELSE {[pc |-> task.pc, id |-> IF task.op = None THEN None ELSE task.op.id,
           reply |-> task.reply, page |-> task.page, error |-> task.error]}

FewAreLate == Cardinality(net') + Cardinality(lingering') <= MaxLate

PassGivesUp ==
    /\ task # Idle
    /\ net' = net \union InFlight
    /\ lingering' = lingering \union Calls
    /\ FewAreLate
    /\ task' = Idle
    /\ UNCHANGED <<srv, db, del, History>>

(* A database call of a pass that has ended.                               *)
CallRuns(c) ==
    /\ db' = CASE c.pc = "Next" -> NextOperation(db).db
               [] c.pc = "Ack" -> AcknowledgeOperation(db, c.id, c.reply.applied, c.reply.entry).db
               [] c.pc = "Apply" -> ApplyChangesPage(db, c.page).db
               [] c.pc = "Block" -> BlockOperation(db, c.id, c.error).db
    /\ lingering' = lingering \ {c}
    /\ UNCHANGED <<srv, task, del, net, History>>

-----------------------------------------------------------------------------
(* delete_community_account.                                               *)
DeletionBegins ==
    /\ del = "Idle" /\ db.account # "Deleted"
    /\ db' = BeginDeletion(db)
    /\ del' = "Fenced"
    /\ UNCHANGED <<srv, task, net, lingering, History>>

DeletionTakesGate ==
    /\ del = "Fenced" /\ GateIsFree
    /\ del' = "Remote"
    /\ UNCHANGED <<srv, db, task, net, lingering, History>>

DeletionAnswered ==
    /\ del = "Remote"
    /\ LET a == Handle(srv, DeleteRequest)
       IN  /\ srv' = a.server
           /\ del' = IF a.status = "Ok" THEN "Complete" ELSE "Idle"
    /\ UNCHANGED <<db, task, net, lingering, History>>

(* The gate or the answer does not come in time.                           *)
DeletionGivesUp ==
    /\ del \in {"Fenced", "Remote"}
    /\ net' = IF del = "Remote" THEN net \union {DeleteRequest} ELSE net
    /\ del' = "Idle"
    /\ UNCHANGED <<srv, db, task, lingering, History>>
    /\ FewAreLate

DeletionCompletes ==
    /\ del = "Complete"
    /\ db' = CompleteDeletion(db)
    /\ unsent' = {p \in DOMAIN db.rows : PendingWithdrawal(db, p)} \union unsent
    /\ del' = "Idle"
    /\ UNCHANGED <<srv, task, net, lingering, issued, decided, redrawn>>

-----------------------------------------------------------------------------
(* The environment.                                                        *)
RequestArrives(r) ==
    /\ srv' = Handle(srv, r).server
    /\ net' = net \ {r}
    /\ UNCHANGED <<db, task, del, lingering, History>>

ModeratorActs(target, decision, input) ==
    /\ srv.change < MaxChanges
    /\ srv.spots[target].status \in {"Published", "Hidden"}
    /\ decision \in Decisions(srv.spots[target].status)
    /\ srv' = Moderate(srv, target, decision, input)
    /\ UNCHANGED <<db, Phone, History>>

OtherSaves(input) ==
    /\ srv.change < MaxChanges /\ Len(srv.spots) < MaxSpots /\ Asked < MaxOperations
    /\ srv' = OtherCreate(srv, input)
    /\ UNCHANGED <<db, Phone, History>>

AppRestarts ==
    /\ task' = Idle /\ del' = "Idle" /\ lingering' = {}
    /\ net' = net \union InFlight \union (IF del = "Remote" THEN {DeleteRequest} ELSE {})
    /\ FewAreLate
    /\ UNCHANGED <<srv, db, History>>

Rider ==
    \/ \E input \in Inputs : RiderSaves(input)
    \/ \E point \in DOMAIN db.rows :
         \/ RiderChanges(point, "Withdraw", None)
         \/ \E input \in Inputs : RiderChanges(point, "Edit", input)
    \/ \E i \in DOMAIN db.outbox :
         \/ RiderRetries(i) \/ RiderRebases(i) \/ RiderAccepts(i)
         \/ \E input \in Inputs : RiderReplaces(i, input)

Next ==
    \/ Rider
    \/ SyncBegins \/ RefreshBegins \/ TakeNext \/ ServerReplies \/ Acknowledge
    \/ ReadCursor \/ FetchPage \/ ApplyPage \/ CheckBlocked \/ BlockRejected
    \/ PassGivesUp
    \/ \E c \in lingering : CallRuns(c)
    \/ DeletionBegins \/ DeletionTakesGate \/ DeletionAnswered \/ DeletionGivesUp
    \/ DeletionCompletes
    \/ \E r \in net : RequestArrives(r)
    \/ \E target \in DOMAIN srv.spots, input \in Inputs \ Refused,
          decision \in {"Hide", "Restore", "Remove", "Correct"} :
         ModeratorActs(target, decision, input)
    \/ \E input \in Inputs \ Refused : OtherSaves(input)
    \/ AppRestarts

Spec == Init /\ [][Next]_vars

-----------------------------------------------------------------------------
(* Properties.                                                             *)

(* What the rider asks for happens once.  However often an operation is    *)
(* sent, because its answer was lost or came after the timeout, a saved    *)
(* spot is made at the server at most once; and no operation disappears:   *)
(* while the account is active it waits in the outbox, or the server has   *)
(* applied it, or the rider has dropped or replaced it.                    *)
ExactlyOnce ==
    /\ \A i, j \in DOMAIN srv.spots :
         srv.spots[i].origin # None /\ srv.spots[i].origin = srv.spots[j].origin => i = j
    /\ db.account = "Active" =>
         1..issued \subseteq {op.id : op \in Range(db.outbox)} \union decided
                             \union {o.request.id : o \in srv.operations}

Quiet == db.outbox = <<>> /\ task = Idle /\ lingering = {} /\ db.cursor = srv.change

(* When nothing is under way and the cursor has reached the last change,   *)
(* the phone shows every spot as the server has it, whatever the order in  *)
(* which pages, receipts and abandoned calls were applied.  The exception: *)
(* a spot whose withdrawal still waited when the deletion of the account   *)
(* emptied the outbox stays off this phone's map for good, although the    *)
(* server keeps publishing it ("a local withdrawal is a tombstone").       *)
DirectoryConverges ==
    Quiet => \A i \in DOMAIN srv.spots :
        /\ HasRemote(db, i)
        /\ LET row == db.rows[FindRemote(db, i)]
               entry == Entry(srv, i)
           IN  /\ row.status = entry.status
               /\ \/ row.input = entry.input /\ row.pinned = (entry.status = "Published")
                  \/ FindRemote(db, i) \in unsent /\ ~row.pinned

(* A deletion that the phone reports as complete is complete: the server   *)
(* has no account, the outbox is empty, no row is the rider's.  And no     *)
(* request that arrives after the deletion gives the rider a spot again.   *)
DeletionIsFinal ==
    /\ db.account = "Deleted" =>
         /\ ~srv.registered /\ db.outbox = <<>>
         /\ \A p \in DOMAIN db.rows : ~db.rows[p].owned
    /\ ~srv.registered => \A i \in DOMAIN srv.spots : srv.spots[i].owner # "Rider"

(* While the last operation that waits for a spot is a save or an edit,    *)
(* the map draws the spot with that content or not at all.  No page, no    *)
(* receipt, no abandoned call and no acceptance of the server's entry puts *)
(* other content in its place.  What does is the rider's own review of an  *)
(* older operation: resolve_operation with RebaseKeepingLocal writes the   *)
(* draft saved with the conflict into the row and leaves the later edit in *)
(* the outbox, and so does replace_blocked_operation on a withdrawal.  The *)
(* edits that waited behind such a review are not claimed.                 *)
DraftIsShown ==
    \A i \in DOMAIN db.outbox :
        LET op == db.outbox[i]
            row == db.rows[op.point]
        IN  CarriesFields(op) /\ (\A j \in PendingOf(db, op.point) : j <= i) /\ row.pinned
            => row.input = op.input \/ op.id \in redrawn

=============================================================================
