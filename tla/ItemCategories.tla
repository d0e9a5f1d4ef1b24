--------------------------- MODULE ItemCategories --------------------------
(***************************************************************************)
(* The category of the items of a receipt and where it comes from: the     *)
(* rules suggest one for every name, the owner may choose another or none, *)
(* and rows from before the rules carry one whose origin nobody recorded.  *)
(* Every action is one request or transaction under the receipt's lock;    *)
(* requests of several tabs and the result of a reprocessing interleave.   *)
(*                                                                         *)
(* A name stands for what normalization makes of it, Rule for the first of *)
(* KEYWORD_RULES that matches it.  Times are numbered in their order.      *)
(***************************************************************************)
EXTENDS Naturals

CONSTANTS
    Items,        \* values of receipt_item_id
    Names,
    Categories,
    Rule,         \* the category suggested for a name
    None,         \* NULL
    Absent,       \* a field that a request does not name
    MaxChoice     \* bound on the owner's explicit choices

ASSUME CategoryConstants ==
    /\ Rule \in [Names -> Categories]
    /\ None \notin Names \union Categories
    /\ Absent \notin Names \union Categories \union {None}
    /\ MaxChoice \in Nat

VARIABLES
    item,         \* the rows of receipt_items, None where there is none
    categories,   \* the rows of categories
    choice        \* how many explicit choices have been made

vars == <<item, categories, choice>>

Category == Categories \union {None}
Sources == {"automatic", "manual", "legacy"}

(***************************************************************************)
(* input: category_input, the name the rules were last asked about, which  *)
(* is None with category_rule_version; confirmed: the number of the choice *)
(* in category_confirmed_at, 0 for NULL.                                   *)
(***************************************************************************)
Item == [ raw : Names,
          normalized : Names \union {None},
          category : Category,
          suggested : Category,
          input : Names \union {None},
          source : Sources,
          confirmed : Nat ]

TypeOK ==
    /\ item \in [Items -> Item \union {None}]
    /\ categories \subseteq Categories
    /\ choice \in Nat

\* NULL is no row.
ASSUME NoneIsNoRow == None \notin Item

Present(i) == item[i] # None

-----------------------------------------------------------------------------
\* Rows left by the migration: a category makes the row "legacy".
OldRow(raw, normalized, category) ==
    [ raw |-> raw, normalized |-> normalized, category |-> category,
      suggested |-> None, input |-> None, confirmed |-> 0,
      source |-> IF category = None THEN "automatic" ELSE "legacy" ]

Init ==
    /\ categories = Categories
    /\ choice = 0
    /\ item \in [Items -> {None} \union
                    {OldRow(raw, normalized, category) :
                         raw \in Names, normalized \in Names \union {None},
                         category \in Category}]

\* The name the rules are asked about: normalized_name or raw_name.
Shown(raw, normalized) == IF normalized # None THEN normalized ELSE raw

\* suggest_items raises when a category of the catalogue is missing.
CanSuggest(name) == Rule[name] \in categories

Suggested(raw, normalized) ==
    LET name == Shown(raw, normalized) IN
    [ raw |-> raw, normalized |-> normalized, category |-> Rule[name],
      suggested |-> Rule[name], input |-> name, source |-> "automatic",
      confirmed |-> 0 ]

\* The owner names a category, or none, in the request.
Chosen(row, category) ==
    [ raw |-> row.raw, normalized |-> row.normalized, category |-> category,
      suggested |-> row.suggested, input |-> row.input, source |-> "manual",
      confirmed |-> choice + 1 ]

Becomes(i, row) == item' = [item EXCEPT ![i] = row]

\* create_receipt_item.
Create(i, raw, normalized, category) ==
    LET row == Suggested(raw, normalized) IN
    /\ ~Present(i)
    /\ category \in categories \union {None, Absent}
    /\ CanSuggest(Shown(raw, normalized))
    /\ IF category = Absent
       THEN Becomes(i, row) /\ UNCHANGED choice
       ELSE /\ choice < MaxChoice
            /\ Becomes(i, Chosen(row, category))
            /\ choice' = choice + 1
    /\ UNCHANGED categories

\* A category without rule version was not given by the rules.
Legacy(row) == row.input = None /\ row.category # None

\* slip: only the mark is looked at, not the missing rule version
KeptMarked(row) == row.source = "manual"

\* slip: any category the row has is taken for the owner's
KeptFilled(row) == row.category # None

Kept(row) == row.source \in {"manual", "legacy"} \/ Legacy(row)

\* slip: an old row chosen by the owner is marked as legacy again
SourceForgotten(row) == IF Legacy(row) THEN "legacy" ELSE row.source

SourceAfterRename(row) ==
    IF Legacy(row) /\ row.source # "manual" THEN "legacy" ELSE row.source

\* slip: the new suggestion is made for the name shown before
InputBefore(row, raw, normalized) == Shown(row.raw, row.normalized)

\* The value of a field after a request that may name it.
Patched(field, old) == IF field = Absent THEN old ELSE field

\* A new raw name is looked at without the normalized name of the old one,
\* which the row keeps.
InputAfter(row, raw, normalized) ==
    Shown(Patched(raw, row.raw),
          Patched(normalized, IF raw = Absent THEN row.normalized ELSE None))

Renamed(row, raw, normalized) ==
    LET name == InputAfter(row, raw, normalized) IN
    [ raw |-> Patched(raw, row.raw),
      normalized |-> Patched(normalized, row.normalized),
      category |-> IF Kept(row) THEN row.category ELSE Rule[name],
      suggested |-> Rule[name],
      input |-> name,
      source |-> SourceAfterRename(row),
      confirmed |-> row.confirmed ]

\* update_receipt_item; other fields than these do not matter here.
Update(i, raw, normalized, category) ==
    LET row == item[i]
        rename == raw # Absent \/ normalized # Absent
        renamed == IF rename THEN Renamed(row, raw, normalized) ELSE row
    IN
    /\ Present(i)
    /\ rename \/ category # Absent
    /\ category \in categories \union {None, Absent}
    /\ rename => CanSuggest(InputAfter(row, raw, normalized))
    /\ IF category = Absent
       THEN Becomes(i, renamed) /\ UNCHANGED choice
       ELSE /\ choice < MaxChoice
            /\ Becomes(i, Chosen(renamed, category))
            /\ choice' = choice + 1
    /\ UNCHANGED categories

Delete(i) ==
    /\ Present(i)
    /\ Becomes(i, None)
    /\ UNCHANGED <<categories, choice>>

\* save_result replaces the rows by new ones, with ids of their own; whether
\* it may (versions, revision) is ReceiptRow's concern.
SaveResult(raw, normalized) ==
    LET new == DOMAIN raw IN
    /\ \A i \in new : ~Present(i) /\ CanSuggest(normalized[i])
    /\ item' = [i \in Items |->
                  IF i \in new THEN Suggested(raw[i], normalized[i]) ELSE None]
    /\ UNCHANGED <<categories, choice>>

\* External: a category is removed; both foreign keys are ON DELETE SET NULL.
Without(c, row) ==
    LET kept(category) == IF category = c THEN None ELSE category IN
    [ raw |-> row.raw, normalized |-> row.normalized,
      category |-> kept(row.category), suggested |-> kept(row.suggested),
      input |-> row.input, source |-> row.source, confirmed |-> row.confirmed ]

RemoveCategory(c) ==
    /\ c \in categories
    /\ categories' = categories \ {c}
    /\ item' = [i \in Items |->
                  IF Present(i) THEN Without(c, item[i]) ELSE None]
    /\ UNCHANGED choice

Next ==
    \/ \E i \in Items, raw \in Names, normalized \in Names \union {None},
          category \in Category \union {Absent} :
          Create(i, raw, normalized, category)
    \/ \E i \in Items, raw \in Names \union {Absent},
          normalized \in Names \union {None, Absent},
          category \in Category \union {Absent} :
          Update(i, raw, normalized, category)
    \/ \E i \in Items : Delete(i)
    \/ \E new \in SUBSET Items :
          \E raw, normalized \in [new -> Names] : SaveResult(raw, normalized)
    \/ \E c \in Categories : RemoveCategory(c)

Spec == Init /\ [][Next]_vars

-----------------------------------------------------------------------------
\* A category the owner chose, or one that was there before the rules, is
\* changed only by another choice of the owner or because the category itself
\* is removed: no rename, in whatever order, lets a rule override it.
OnlyOwnerRelabels ==
    [][ \A i \in Items :
          /\ Present(i) /\ item'[i] # None
          /\ item[i].source \in {"manual", "legacy"}
          /\ item'[i].category # item[i].category
          => \/ item'[i].confirmed > item[i].confirmed
             \/ item[i].category \notin categories' ]_vars

\* category_confirmed_at is set on exactly the rows marked manual, so that
\* analytics and later rules can tell the owner's labels from predictions.
ChoicesAreConfirmed ==
    \A i \in Items : Present(i) =>
        (item[i].source = "manual" <=> item[i].confirmed > 0)

\* A row the rules have classified and nobody relabelled has the category that
\* is stored as its suggestion.
AutomaticFollowsRules ==
    \A i \in Items :
        Present(i) /\ item[i].source = "automatic" /\ item[i].input # None =>
            item[i].category = item[i].suggested

\* The stored suggestion is the one for a name the item has now, unless its
\* category has been removed since.
SuggestionIsCurrent ==
    \A i \in Items :
        Present(i) /\ item[i].input # None =>
            /\ item[i].input \in {item[i].raw, item[i].normalized}
            /\ item[i].suggested \in {Rule[item[i].input], None}

\* What a row says of its category is true of it after any sequence of
\* requests: whose choice it is, and what the rules make of which name.
MarksTellOrigin ==
    /\ ChoicesAreConfirmed
    /\ AutomaticFollowsRules
    /\ SuggestionIsCurrent
=============================================================================
