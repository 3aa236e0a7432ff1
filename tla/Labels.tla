-------------------------------- MODULE Labels --------------------------------
(***************************************************************************)
(* routes_from_labels (src/src/discovery/labels.rs): the routes a          *)
(* container declares with its archetype.* labels.  The state is one       *)
(* container's label map, to which labels are added one at a time.         *)
(*                                                                         *)
(* A key is the sequence of its words, what stands between its dots, so    *)
(* archetype.route.a.host is << "archetype", "route", "a", "host" >>.  A   *)
(* route's name is a sequence of words too, since the code lets names      *)
(* have dots.  Routes are a set: the Vec of the code holds them in the     *)
(* order of their names.                                                   *)
(***************************************************************************)
EXTENDS Integers, Sequences, FiniteSets

CONSTANTS
  Words,       \* what may stand between two dots of a key
  LowerField,  \* to_ascii_lowercase of a word
  FromLast,    \* how many words come after one in byte order
  LabelKeys,   \* keys the container may have
  Names,       \* route names to ask for
  MaxLabels,   \* bound: labels of the container
  Missing      \* Option::None

ASSUME LabelsConstants ==
  /\ MaxLabels \in Nat
  /\ {"archetype", "route"} \subseteq Words
  /\ LowerField \in [Words -> Words]
  /\ FromLast \in [Words -> Nat]
  /\ \A k \in LabelKeys : k \in Seq(Words)
  /\ \A n \in Names : n \in Seq(Words) /\ n # <<>>
  /\ Missing \notin {"yes", "off", "maybe", "a", "b"}

Enable == << "archetype", "enable" >>
GlobalStrict == << "archetype", "attestation", "strict" >>
Top(field) == << "archetype", field >>
RoutePrefix == << "archetype", "route" >>

\* A boolean token, or one that parse_bool_token does not know; for the other
\* fields two values, to tell which one was taken.
Values(k) ==
  IF LowerField[k[Len(k)]] \in {"enable", "strict"} THEN {"yes", "off", "maybe"} ELSE {"a", "b"}

VARIABLE labels   \* the label map: a function on some of LabelKeys

LabelsInit == labels = [k \in {} |-> "a"]

AddLabel ==
  /\ Cardinality(DOMAIN labels) < MaxLabels
  /\ \E k \in LabelKeys \ DOMAIN labels : \E v \in Values(k) :
       labels' = [j \in DOMAIN labels \cup {k} |-> IF j = k THEN v ELSE labels[j]]

LabelsSpec == LabelsInit /\ [][AddLabel]_labels
-----------------------------------------------------------------------------
ParseBoolToken(v) == CASE v = "yes" -> TRUE [] v = "off" -> FALSE [] OTHER -> Missing

Get(m, k) == IF k \in DOMAIN m THEN m[k] ELSE Missing
Or(a, b) == IF a # Missing THEN a ELSE b

\* strip_prefix, and a dot in what is left of the key.
Grouped(k) == Len(k) >= 4 /\ k[1] = RoutePrefix[1] /\ k[2] = RoutePrefix[2]

\* split_once: the name would end at the first dot.
NameOfMutant(k) == << k[3] >>

\* rsplit_once: the name is what stands before the last dot.
NameOf(k) == SubSeq(k, 3, Len(k) - 1)

\* The labels of the field f of the route named n, in any spelling.
FieldKeys(m, n, f) ==
  {k \in DOMAIN m : Grouped(k) /\ NameOf(k) = n /\ LowerField[k[Len(k)]] = f}

\* Later keys overwrite earlier ones: the last spelling in the map's order.
Field(m, n, f) ==
  LET ks == FieldKeys(m, n, f)
  IN  IF ks = {} THEN Missing
      ELSE m[CHOOSE k \in ks : \A j \in ks : FromLast[k[Len(k)]] <= FromLast[j[Len(j)]]]

Route(name, host, path_prefix, upstream, strict) ==
  [name |-> name, host |-> Or(host, ""), path_prefix |-> Or(path_prefix, ""),
   upstream |-> upstream, strict |-> strict]

NamedRoute(m, n) ==
  Route(n, Field(m, n, "host"), Field(m, n, "pathprefix"), Field(m, n, "upstream"),
        Or(ParseBoolToken(Field(m, n, "strict")), ParseBoolToken(Get(m, GlobalStrict))))

GroupNames(m) == {NameOf(k) : k \in {k \in DOMAIN m : Grouped(k)}}

NamedRoutes(m) ==
  {NamedRoute(m, n) : n \in {n \in GroupNames(m) : Field(m, n, "upstream") # Missing}}

\* The route named after the container, when no named one came out.
ImplicitRoute(m) ==
  IF NamedRoutes(m) # {} \/ Get(m, Top("upstream")) = Missing THEN {}
  ELSE {Route(<<>>, Get(m, Top("host")), Get(m, Top("pathprefix")),
              Get(m, Top("upstream")), ParseBoolToken(Get(m, GlobalStrict)))}

RoutesFromLabels(m) ==
  IF ParseBoolToken(Get(m, Enable)) # TRUE THEN {} ELSE NamedRoutes(m) \cup ImplicitRoute(m)
-----------------------------------------------------------------------------
Routes == RoutesFromLabels(labels)
OptedIn == ParseBoolToken(Get(labels, Enable)) = TRUE

\* The keys archetype.route.<name>.<field> as the schema writes them, in any
\* spelling of the field.
SchemaKeys(n, f) == {RoutePrefix \o Append(n, w) : w \in {w \in Words : LowerField[w] = f}}

\* What the container's labels say of a route's field.
Said(n, f, otherwise) ==
  LET ks == SchemaKeys(n, f) \cap DOMAIN labels
  IN  IF ks = {} THEN {otherwise} ELSE {labels[k] : k \in ks}

\* The routes are the ones the schema declares, name by name, although the
\* labels of all of them arrive in one flat map with dots in names and fields
\* in any case: an opted-in container has one route for each name with an
\* upstream, whose fields are of that name's labels or the defaults, and a
\* route under the container's own name only when it has no other.
RoutesAsDeclared ==
  /\ \A n \in Names :
       (\E r \in Routes : r.name = n)
         <=> OptedIn /\ SchemaKeys(n, "upstream") \cap DOMAIN labels # {}
  /\ \A r \in Routes : r.name # <<>> =>
       /\ r.upstream \in Said(r.name, "upstream", Missing)
       /\ r.host \in Said(r.name, "host", "")
       /\ r.path_prefix \in Said(r.name, "pathprefix", "")
       /\ \E s \in Said(r.name, "strict", Missing) :
            r.strict = Or(ParseBoolToken(s), ParseBoolToken(Get(labels, GlobalStrict)))
  /\ \A r, q \in Routes : r.name = q.name \/ r.name = <<>> => r = q
=============================================================================
