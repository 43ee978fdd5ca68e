------------------------------- MODULE StatNames -------------------------------
(***************************************************************************)
(* The names of counters: how src/xray/stats.rs takes them apart at ">>>", *)
(* and the users it derives from them.  A node puts a name together from a *)
(* scope, an email or tag, and a direction; emails and tags may be any     *)
(* text, with any number of ">" in it.  A text is a sequence of pieces:    *)
(* ">", and words that have no ">" in them.  Elsewhere (XrayNode, Bridge)  *)
(* stat names are model values, and IdPart and Matches tell about them     *)
(* what this module says.                                                  *)
(***************************************************************************)
EXTENDS Naturals, FiniteSets, SequencesExt

CONSTANTS
  Piece,       \* ">" and words
  Ident,       \* the emails and tags
  Metric,      \* directions
  MaxCounters, \* bound on the counters of a node
  None         \* a part that is missing

ASSUME StatNamesAssumption ==
  /\ {">", "user", "inbound", "traffic"} \cup Metric \subseteq Piece
  /\ Ident \subseteq Seq(Piece)
  /\ None \notin Ident

VARIABLE counters  \* those of the node: what each counts

Counter == [scope : {"user", "inbound"}, id : Ident, metric : Metric]

-----------------------------------------------------------------------------
Separator == <<">", ">", ">">>

Join(parts) ==
  FlattenSeq([i \in 1..Len(parts) |->
                IF i = 1 THEN parts[i] ELSE Separator \o parts[i]])

NameOf(c) == Join(<< <<c.scope>>, c.id, <<"traffic">>, <<c.metric>> >>)

(* Where text has the separator.                                           *)
Occurrences(text, separator) ==
  {i \in 1..Len(text) :
     /\ i + Len(separator) - 1 <= Len(text)
     /\ SubSeq(text, i, i + Len(separator) - 1) = separator}

(* Mutant: the last separator first.                                       *)
CutLast(text) == Max(Occurrences(text, Separator))

(* str::split takes the separators from left to right.                     *)
Cut(text) == Min(Occurrences(text, Separator))

Split[text \in Seq(Piece)] ==
  IF Occurrences(text, Separator) = {} THEN <<text>>
  ELSE <<SubSeq(text, 1, Cut(text) - 1)>>
         \o Split[SubSeq(text, Cut(text) + Len(Separator), Len(text))]

(* Mutant: empty parts are left out.                                       *)
NonEmptyParts(name) == SelectSeq(Split[name], LAMBDA part : part # << >>)

PartsOf(name) == Split[name]

Part(name, i) ==
  IF i <= Len(PartsOf(name)) THEN PartsOf(name)[i] ELSE None

(* Mutant: the metric is looked for where the category is.                 *)
ParseOffByOne(name) ==
  [name |-> name, parts |-> PartsOf(name),
   scope |-> Part(name, 1), id |-> Part(name, 2),
   category |-> Part(name, 3), metric |-> Part(name, 3)]

ParseStatName(name) ==
  [name |-> name, parts |-> PartsOf(name),
   scope |-> Part(name, 1), id |-> Part(name, 2),
   category |-> Part(name, 3), metric |-> Part(name, 4)]

(* The records of the counters whose name contains the pattern.            *)
QueryStats(pattern) ==
  {ParseStatName(NameOf(c)) :
     c \in {d \in counters : Occurrences(NameOf(d), pattern) # {}}}

(* Every part in the place of an id, in names that contain "user>>>".      *)
ListUsers ==
  {record.id : record \in QueryStats(<<"user">> \o Separator)} \ {None}

-----------------------------------------------------------------------------

Init == counters = {}

(* The first unit of traffic creates the counter.                          *)
Traffic(c) ==
  /\ Cardinality(counters) < MaxCounters
  /\ counters' = counters \cup {c}

(* The node starts again.                                                  *)
Restart == counters' = {}

Next == Restart \/ \E c \in Counter : Traffic(c)

Spec == Init /\ [][Next]_counters

-----------------------------------------------------------------------------
(* An email or tag that leaves the separators around it alone.             *)
Plain(id) ==
  /\ Occurrences(id, Separator) = {}
  /\ ~IsSuffix(<<">">>, id)

(* Whatever the email or tag, the parts of a record are those of its name: *)
(* put together again they are the name, and no separator is left in them  *)
(* (xray/stats.rs:30-36).                                                  *)
PartsAreTheName ==
  \A c \in counters :
    LET record == ParseStatName(NameOf(c)) IN
    /\ Join(record.parts) = NameOf(c)
    /\ \A i \in 1..Len(record.parts) :
         Occurrences(record.parts[i], Separator) = {}

(* The four named fields say which counter a record is of, also next to    *)
(* counters with ids that are similar, empty, or begin with ">"; the       *)
(* exception is an id that runs into the separators (xray/stats.rs:30-48). *)
FieldsTellApart ==
  \A c, d \in {k \in counters : Plain(k.id)} :
    LET one == ParseStatName(NameOf(c))
        other == ParseStatName(NameOf(d))
    IN  /\ one.id = c.id /\ one.scope = <<c.scope>>
        /\ [one EXCEPT !.name = None, !.parts = None] =
           [other EXCEPT !.name = None, !.parts = None] => c = d

(* xray/stats.rs:202 "Derive user list from stats counters": every user    *)
(* with traffic and a plain email is listed, under that email, whatever    *)
(* other counters there are.  Nobody else is, as long as all emails and    *)
(* tags are plain and no tag ends in "user": a tag x>>>user>>>y does not   *)
(* end in it, and has x listed all the same.                               *)
ListsTheUsers ==
  LET emails(users) == {c.id : c \in {d \in users : d.scope = "user"}}
  IN  /\ emails({c \in counters : Plain(c.id)}) \subseteq ListUsers
      /\ (\A c \in counters :
            Plain(c.id) /\ (c.scope = "user" \/ ~IsSuffix(<<"user">>, c.id)))
           => ListUsers = emails(counters)
===============================================================================
