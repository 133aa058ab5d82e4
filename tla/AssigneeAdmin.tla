---------------------------- MODULE AssigneeAdmin ----------------------------
(***************************************************************************)
(* The operators mails are assigned to, as the settings page keeps them    *)
(* (app/ui/settings_handlers.py and                                        *)
(* app/repositories/postgres_assignee_admin_repository.py).                *)
(*                                                                         *)
(* The handlers run one after the other, each in a transaction of its own, *)
(* but the pages that ask for them may be of any age: each action takes an *)
(* operator that anybody has ever seen.  Synthetic operators are those of  *)
(* the evaluation data, told by the domain of their address.               *)
(***************************************************************************)
EXTENDS Naturals, FiniteSets

CONSTANTS
  Operators,   \* rows of users that there may ever be
  Categories,  \* CATEGORY_BUSINESS_TYPES
  NoCategory

DefaultPriority == 10

ASSUME NoCategoryAssumption == NoCategory \notin Categories
ASSUME OperatorsAssumption == IsFiniteSet(Operators)

VARIABLES
  operator,  \* row of users; its priority in each category, 0 where it has none
  placed     \* history: who the last orders of each category placed before whom

adminVars == <<operator, placed>>

OperatorRow == [status: {"none", "active", "inactive"}, deleted: BOOLEAN, synthetic: BOOLEAN,
                priority: [Categories -> Nat]]
NoOperator == [status |-> "none", deleted |-> FALSE, synthetic |-> FALSE,
               priority |-> [c \in Categories |-> 0]]

Exists(o) == operator[o].status # "none"
(* Whom the page may change.                                               *)
Editable(o) == Exists(o) /\ ~operator[o].deleted /\ ~operator[o].synthetic
Has(o, c) == operator[o].priority[c] > 0

(* Operators of the seed have any of the categories, synthetic ones are    *)
(* written by the evaluation loader.                                       *)
Seeded(b, S) ==
  [status |-> "active", deleted |-> FALSE, synthetic |-> b,
   priority |-> [c \in Categories |-> IF c \in S THEN DefaultPriority ELSE 0]]
AdminInit ==
  /\ operator \in [Operators ->
       {NoOperator} \cup {Seeded(b, S) : b \in BOOLEAN, S \in SUBSET Categories}]
  /\ placed = [c \in Categories |-> {}]

-----------------------------------------------------------------------------
Write(o, row) == operator' = [operator EXCEPT ![o] = row]

(* _replace_category: the operator's place in any category is a new one.   *)
ReplaceCategory(c) == [d \in Categories |-> IF d = c THEN DefaultPriority ELSE 0]
Unplaced(o) == [c \in Categories |-> {p \in placed[c] : p[1] # o /\ p[2] # o}]

(* create.  An address that is taken, by a deleted operator too, raises.   *)
Create(o, c, synthetic) ==
  /\ ~Exists(o)
  /\ Write(o, [status |-> "active", deleted |-> FALSE, synthetic |-> synthetic,
               priority |-> ReplaceCategory(c)])
  /\ placed' = Unplaced(o)

(* update: every edit of a field sends the whole row with its category.    *)
Update(o, c, synthetic) ==
  /\ Editable(o)
  /\ \/ c = NoCategory
        /\ Write(o, [operator[o] EXCEPT !.synthetic = synthetic])
        /\ UNCHANGED placed
     \/ c # NoCategory
        /\ Write(o, [operator[o] EXCEPT !.synthetic = synthetic, !.priority = ReplaceCategory(c)])
        /\ placed' = Unplaced(o)

(* Mutant: the status of a deleted operator is toggled too.                *)
ToggleDeleted(o) ==
  /\ Exists(o) /\ ~operator[o].synthetic
  /\ Write(o, [operator[o] EXCEPT !.status = IF @ = "active" THEN "inactive" ELSE "active"])
  /\ UNCHANGED placed
ToggleActive(o) ==
  /\ Editable(o)
  /\ Write(o, [operator[o] EXCEPT !.status = IF @ = "active" THEN "inactive" ELSE "active"])
  /\ UNCHANGED placed

Deactivate(o) ==
  /\ Editable(o)
  /\ Write(o, [operator[o] EXCEPT !.status = "inactive"])
  /\ UNCHANGED placed

Delete(o) ==
  /\ Exists(o) /\ ~operator[o].synthetic
  /\ Write(o, [operator[o] EXCEPT !.status = "inactive", !.deleted = TRUE])
  /\ UNCHANGED placed

(* reorder_category_assignees: the operators dropped on a category's list  *)
(* take the priorities 1, 2, ... in it, if they have it at all.            *)
Moved(o, c, place) == o \in DOMAIN place /\ Editable(o) /\ Has(o, c)

(* Mutant: the rows of every category are updated.                         *)
RenumberedEverywhere(o, c, place) ==
  [d \in Categories |-> IF o \in DOMAIN place /\ Editable(o) /\ Has(o, d)
                        THEN place[o] ELSE operator[o].priority[d]]
Renumbered(o, c, place) ==
  [d \in Categories |-> IF d = c /\ Moved(o, c, place) THEN place[o] ELSE operator[o].priority[d]]

Reorder(c, place) ==
  /\ operator' = [o \in Operators |->
                    [operator[o] EXCEPT !.priority = Renumbered(o, c, place)]]
  /\ placed' = [placed EXCEPT ![c] =
       {p \in Operators \X Operators :
          \/ /\ Moved(p[1], c, place) /\ Moved(p[2], c, place)
             /\ place[p[1]] < place[p[2]]
          \/ p \in placed[c] /\ ~Moved(p[1], c, place) /\ ~Moved(p[2], c, place)}]

(* The chips of a list, some of another category's dragged into it.        *)
Orders == UNION {{place \in [S -> 1 .. Cardinality(S)] :
                    \A o, q \in S : place[o] = place[q] => o = q} : S \in SUBSET Operators}

AdminNext ==
  \/ \E o \in Operators :
       \/ \E c \in Categories, b \in BOOLEAN : Create(o, c, b)
       \/ \E c \in Categories \cup {NoCategory}, b \in BOOLEAN : Update(o, c, b)
       \/ ToggleActive(o) \/ Deactivate(o) \/ Delete(o)
  \/ \E c \in Categories, place \in Orders : Reorder(c, place)
AdminSpec == AdminInit /\ [][AdminNext]_adminVars

-----------------------------------------------------------------------------
AdminTypeOK ==
  /\ operator \in [Operators -> OperatorRow]
  /\ placed \in [Categories -> SUBSET (Operators \X Operators)]

(* The search for rules and capabilities asks for the status only          *)
(* (PostgresRetrievalRepository), the tables of the page for more.         *)
FoundBySearch(o) == operator[o].status = "active"
ListedOperating(o) == Editable(o)
ListedSynthetic(o) ==
  ~operator[o].deleted /\ operator[o].status = "active" /\ operator[o].synthetic
Listed(o) == ListedOperating(o) \/ ListedSynthetic(o)

(* The page sorts the operators of a category (settings_context).          *)
Precedes(o, q, c) == operator[o].priority[c] < operator[q].priority[c]

(* Whoever the evidence of a decision names can be seen on the page: no    *)
(* click of an old page brings a deleted operator back into the search,    *)
(* where nobody could take it out again.                                   *)
FoundAreListed == \A o \in Operators : FoundBySearch(o) => Listed(o)

(* The order of a category is the one its operators were last dropped in,  *)
(* whatever is done to other categories and operators, until one of them   *)
(* is dropped anew or edited, which puts it back to the default.           *)
OrderHolds ==
  \A c \in Categories : \A p \in placed[c] :
    Has(p[1], c) /\ Has(p[2], c) /\ Precedes(p[1], p[2], c)
=============================================================================
