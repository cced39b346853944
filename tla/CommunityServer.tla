--------------------------- MODULE CommunityServer --------------------------
(***************************************************************************)
(* The community server as one contributor meets it: the spots, the        *)
(* operations it remembers of the contributor, and the account.  Every     *)
(* request is one SQLite write transaction, so it is one operator here,    *)
(* which returns the new server and the reply.                             *)
(*                                                                         *)
(* A spot is named by its position in s.spots; the origin of a spot, the   *)
(* local point it was made from, is known to the model only.  Votes,       *)
(* verification, reports and quotas are left out: they advance a spot's    *)
(* change sequence, never its body or its revision, or refuse a request    *)
(* (a quota) as a lost one.                                                *)
(***************************************************************************)
EXTENDS Naturals, Sequences, FiniteSets, SequencesExt

CONSTANTS None,     \* stands for Option::None
          Refused   \* inputs that the server's validation turns down

NewServer == [registered |-> TRUE, receipt |-> FALSE, spots |-> <<>>,
              operations |-> {}, change |-> 0]

Anonymous == "Anonymous"  \* ANONYMOUS_ID, the owner of retained spots

(* StoredSpot::into_state: only a published spot shows its body.           *)
Entry(s, target) ==
    LET spot == s.spots[target]
    IN  [id |-> target, revision |-> spot.revision, change |-> spot.change,
         status |-> spot.status,
         input |-> IF spot.status = "Published" THEN spot.body ELSE None]

Answer(s, status) == [server |-> s, status |-> status]

(* mutation_receipt: the revision the operation made, with today's state.  *)
Receipt(s, target, applied) ==
    [server |-> s, status |-> "Ok", applied |-> applied, entry |-> Entry(s, target)]

(* replay and the rest of a write: an operation that is remembered is      *)
(* answered from memory, and its id with another request is a conflict.    *)
Once_Forgets(s, request, fresh) == fresh

Once(s, request, fresh) ==
    LET known == {o \in s.operations : o.request.id = request.id}
    IN  IF known = {} THEN fresh
        ELSE LET o == CHOOSE o \in known : TRUE
             IN  IF o.request = request THEN Receipt(s, o.target, o.applied)
                 ELSE Answer(s, "Conflict")

Remember(s, request, target, applied) ==
    [s EXCEPT !.operations =
        @ \union {[request |-> request, target |-> target, applied |-> applied]}]

(* Store::create.                                                          *)
Create(s, r) ==
    LET target == Len(s.spots) + 1
        made == [s EXCEPT !.change = @ + 1,
                          !.spots = Append(@, [owner |-> "Rider", revision |-> 1,
                                               status |-> "Published", body |-> r.input,
                                               change |-> s.change + 1, origin |-> r.origin])]
    IN  Once(s, r, Receipt(Remember(made, r, target, 1), target, 1))

(* EditableSpot::load, for a spot that exists.                             *)
Editable(spot, r) ==
    spot.revision = r.expected /\ spot.status \in {"Published", "Hidden"}

(* Store::mutate: an edit leaves the status, a withdrawal drops the body.  *)
Mutate(s, r) ==
    LET spot == s.spots[r.spot]
        revision == spot.revision + 1
        changed == [s EXCEPT
            !.change = @ + 1,
            !.spots[r.spot] = [@ EXCEPT
                !.revision = revision, !.change = s.change + 1, !.body = r.input,
                !.status = IF r.kind = "Withdraw" THEN "Withdrawn" ELSE @]]
    IN  Once(s, r,
          IF spot.owner # "Rider" THEN Answer(s, "Rejected")
          ELSE IF ~Editable(spot, r) THEN Answer(s, "Conflict")
          ELSE Receipt(Remember(changed, r, r.spot, revision), r.spot, revision))

(* delete_current: the spots stay, under the anonymous owner and with a    *)
(* new change sequence each; a repeated request finds the receipt.         *)
DeleteCurrent(s) ==
    LET owned == {i \in DOMAIN s.spots : s.spots[i].owner = "Rider"}
        rank(i) == Cardinality({j \in owned : j <= i})
    IN  IF s.receipt THEN Answer(s, "Ok")
        ELSE IF ~s.registered THEN Answer(s, "Unauthorized")
        ELSE Answer([s EXCEPT
               !.registered = FALSE, !.receipt = TRUE, !.operations = {},
               !.change = @ + Cardinality(owned),
               !.spots = [i \in DOMAIN @ |->
                    IF i \in owned THEN [@[i] EXCEPT !.owner = Anonymous, !.change = s.change + rank(i)]
                    ELSE @[i]]], "Ok")

(* ensure_actor, part of every write transaction: a request that was       *)
(* authenticated before a deletion finds the account gone.                 *)
EnsureActor_Skipped(s) == TRUE

EnsureActor(s) == s.registered

(* The routes of the contributor.                                          *)
Handle(s, r) ==
    IF r.kind = "Delete" THEN DeleteCurrent(s)
    ELSE IF ~EnsureActor(s) THEN Answer(s, "Unauthorized")
    ELSE IF r.input \in Refused THEN Answer(s, "Rejected")
    ELSE IF r.kind = "Create" THEN Create(s, r) ELSE Mutate(s, r)

Changes_SkipsToLatest(s, after, limit) ==
    LET targets == SetToSortSeq({i \in DOMAIN s.spots : s.spots[i].change > after},
                                LAMBDA i, j : s.spots[i].change < s.spots[j].change)
        items == [k \in 1..(IF Len(targets) < limit THEN Len(targets) ELSE limit) |->
                    Entry(s, targets[k])]
    IN  [items |-> items, more |-> Len(targets) > limit, next |-> s.change]

(* Store::changes: the spots changed after the cursor, oldest change first. *)
Changes(s, after, limit) ==
    LET targets == SetToSortSeq({i \in DOMAIN s.spots : s.spots[i].change > after},
                                LAMBDA i, j : s.spots[i].change < s.spots[j].change)
        items == [k \in 1..(IF Len(targets) < limit THEN Len(targets) ELSE limit) |->
                    Entry(s, targets[k])]
    IN  [items |-> items, more |-> Len(targets) > limit,
         next |-> IF items = <<>> THEN after ELSE items[Len(items)].change]

(* Store::moderate on a published or hidden spot: the status it may get    *)
(* and the body it keeps.  Duplicate ends as Remove does.                  *)
Decisions(status) ==
    (IF status = "Published" THEN {"Hide"} ELSE {"Restore"}) \union {"Remove", "Correct"}

Moderate(s, target, decision, input) ==
    [s EXCEPT
      !.change = @ + 1,
      !.spots[target].revision = @ + 1,
      !.spots[target].change = s.change + 1,
      !.spots[target].status = CASE decision = "Hide" -> "Hidden"
                                 [] decision = "Restore" -> "Published"
                                 [] decision = "Remove" -> "Removed"
                                 [] decision = "Correct" -> @,
      !.spots[target].body = CASE decision = "Remove" -> None
                               [] decision = "Correct" -> input
                               [] OTHER -> @]

(* Another contributor's create.                                           *)
OtherCreate(s, input) ==
    [s EXCEPT !.change = @ + 1,
              !.spots = Append(@, [owner |-> "Other", revision |-> 1, status |-> "Published",
                                   body |-> input, change |-> s.change + 1, origin |-> None])]

=============================================================================
