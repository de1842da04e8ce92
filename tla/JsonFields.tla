----------------------------- MODULE JsonFields -----------------------------
(***************************************************************************)
(* What JsonParser (parsers/json_parser.py) makes of one document: each    *)
(* object is loaded by _pairs_hook, which numbers a key that comes again;  *)
(* _flatten joins the keys of nested objects with dots; then each flat key *)
(* goes to the originals and to a field.                                   *)
(*                                                                         *)
(* A document is a tree: a value stands at a position, the numbers of the  *)
(* members that lead to it, and a position stands for the value there. A   *)
(* key is a sequence of pieces, of which "#" and "." are two.              *)
(***************************************************************************)
EXTENDS Integers, Sequences, FiniteSets, SequencesExt, TLC

CONSTANTS
    Pieces,         \* what keys are made of
    Documents,      \* what a text may hold; the empty tree is a text that is no JSON
    FieldOf,        \* the normalized field of each key that has one
    Ports,          \* the fields that hold a number or nothing
    MaxDepth,       \* ResourceLimits.max_nested_depth
    Null

Keys == Seq(Pieces)

\* The key is that of the member, and size the number of an object's members.
Values == [key : Keys, kind : {"digits", "scalar", "list", "object"}, size : Nat]

IsTree(d) ==
    /\ DOMAIN d \subseteq Seq(Nat \ {0})
    /\ \A p \in DOMAIN d :
          /\ d[p] \in Values
          /\ d[p].kind # "object" => d[p].size = 0
          /\ \A i \in 1..d[p].size : Append(p, i) \in DOMAIN d
          /\ p # <<>> => Front(p) \in DOMAIN d /\ Last(p) <= d[Front(p)].size

\* The keys of _JSON_KEY_MAP have no punctuation, and no field is called "json.".
ASSUME JsonAssumption ==
    /\ {"#", ".", "1"} \subseteq Pieces
    /\ \A d \in Documents : IsTree(d)
    /\ MaxDepth \in Nat \ {0}
    /\ \A k \in DOMAIN FieldOf :
          /\ k \in Keys /\ ToSet(k) \cap {"#", "."} = {}
          /\ FieldOf[k] \in Keys /\ (FieldOf[k] # <<>> => FieldOf[k][1] # "json")

VARIABLES
    doc,            \* what the text says
    stage,          \* where _parse() is
    out, dup,       \* of each object, _pairs_hook's dictionaries
    read,           \* how many of its pairs the hook has put there
    calls,          \* the calls of _flatten that have not returned
    flat,           \* _flatten's dictionary, in its order
    mapped,         \* how many of its keys the loop has done
    originals, fields, unknown      \* the layers of the ParseResult

loading == <<out, dup, read>>
layers == <<originals, fields, unknown>>
vars == <<doc, stage, loading, calls, flat, mapped, layers>>

Objects == {p \in DOMAIN doc : doc[p].kind = "object"}
IsScalar(p) == doc[p].kind \in {"digits", "scalar"}

-----------------------------------------------------------------------------
(* Dictionaries, as sequences of members in the order of insertion. *)

Member(key, at) == [key |-> key, at |-> at]

Index(dict, key) == {i \in 1..Len(dict) : dict[i].key = key}
Has(dict, key) == Index(dict, key) # {}

Assign(dict, m) ==
    IF Has(dict, m.key) THEN [i \in 1..Len(dict) |-> IF dict[i].key = m.key THEN m ELSE dict[i]]
    ELSE Append(dict, m)

Put(layer, name, value) ==
    [k \in DOMAIN layer \cup {name} |-> IF k = name THEN value ELSE layer[k]]

\* The number is spelled with as many digits.
Numbered(key, n) == IF n = 1 THEN key ELSE key \o <<"#">> \o [i \in 1..n |-> "1"]

Dotted(prefix, key) == IF prefix = <<>> THEN key ELSE prefix \o <<".">> \o key

Base_WholeKey(key) == key
Base(key) ==
    LET H == {i \in 1..Len(key) : key[i] = "#"}
    IN  IF H = {} THEN key ELSE SubSeq(key, 1, (CHOOSE i \in H : \A j \in H : i <= j) - 1)

-----------------------------------------------------------------------------
Init ==
    /\ doc \in Documents
    /\ stage = "text"
    /\ out = [p \in Objects |-> <<>>]
    /\ dup = [p \in Objects |-> <<>>]
    /\ read = [p \in Objects |-> 0]
    /\ calls = <<>>
    /\ flat = <<>>
    /\ mapped = 0
    /\ originals = <<>>
    /\ fields = <<>>
    /\ unknown = <<>>

Invalid ==
    /\ stage = "text"
    /\ DOMAIN doc = {}
    /\ stage' = "failed"
    /\ UNCHANGED <<doc, loading, calls, flat, mapped, layers>>

Open == {p \in Objects : read[p] < doc[p].size}

\* The hook is called at an object's end.
EndsBefore(p, q) ==
    \/ IsStrictPrefix(q, p)
    \/ \E k \in DOMAIN p \cap DOMAIN q :
          p[k] < q[k] /\ \A j \in 1..k - 1 : p[j] = q[j]

Times(d, key) == IF key \in DOMAIN d THEN d[key] ELSE 1

\* One turn of _pairs_hook's loop: which number the key gets.
Occurrence_LastWins(p, key) == 1
Occurrence(p, key) == IF Has(out[p], key) THEN Times(dup[p], key) + 1 ELSE 1

Hook ==
    /\ stage = "text"
    /\ \E p \in Open :
          /\ \A q \in Open \ {p} : EndsBefore(p, q)
          /\ LET at == Append(p, read[p] + 1)
                 key == doc[at].key
                 n == Occurrence(p, key)
             IN  /\ out' = [out EXCEPT ![p] = Assign(out[p], Member(Numbered(key, n), at))]
                 /\ dup' = [dup EXCEPT ![p] = IF n = 1 THEN dup[p] ELSE Put(dup[p], key, n)]
          /\ read' = [read EXCEPT ![p] = read[p] + 1]
    /\ UNCHANGED <<doc, stage, calls, flat, mapped, layers>>

Loaded ==
    /\ stage = "text"
    /\ DOMAIN doc # {}
    /\ Open = {}

Call(p, prefix) == [of |-> p, next |-> 1, prefix |-> prefix]

Flatten ==
    /\ Loaded
    /\ <<>> \in Objects
    /\ calls' = <<Call(<<>>, <<>>)>>
    /\ stage' = "flatten"
    /\ UNCHANGED <<doc, loading, flat, mapped, layers>>

\* A list or a scalar at the top is kept whole.
KeepWhole ==
    /\ Loaded
    /\ <<>> \notin Objects
    /\ unknown' = Put(unknown, <<"value">>, <<>>)
    /\ stage' = "map"
    /\ UNCHANGED <<doc, loading, calls, flat, mapped, originals, fields>>

\* The call at hand is the last one, and its depth the number of those before it.
FlattenMember ==
    /\ stage = "flatten"
    /\ LET c == Last(calls)
           m == out[c.of][c.next]
           key == Dotted(c.prefix, m.key)
           turned == Append(Front(calls), [c EXCEPT !.next = @ + 1])
       IN  /\ c.next <= Len(out[c.of])
           /\ IF m.at \in Objects /\ Len(calls) <= MaxDepth
              THEN calls' = Append(turned, Call(m.at, key)) /\ UNCHANGED flat
              ELSE calls' = turned /\ flat' = Assign(flat, Member(key, m.at))
    /\ UNCHANGED <<doc, stage, loading, mapped, layers>>

FlattenReturns ==
    /\ stage = "flatten"
    /\ Last(calls).next > Len(out[Last(calls).of])
    /\ calls' = Front(calls)
    /\ stage' = IF Len(calls) = 1 THEN "map" ELSE stage
    /\ UNCHANGED <<doc, loading, flat, mapped, layers>>

Normalized(g, p) == IF g \in Ports /\ doc[p].kind # "digits" THEN Null ELSE p

\* A list, and what is nested too deeply, stays under its own name.  (So does one whose
\* key starts with "@" and is in no map.)
FieldName(m) ==
    CASE ~IsScalar(m.at) /\ m.key \in DOMAIN FieldOf -> m.key
      [] IsScalar(m.at) /\ Base(m.key) \in DOMAIN FieldOf -> FieldOf[Base(m.key)]
      [] OTHER -> <<"json", ".">> \o m.key

FieldValue(m) == IF IsScalar(m.at) THEN Normalized(FieldName(m), m.at) ELSE m.at

MapMember ==
    /\ stage = "map"
    /\ mapped < Len(flat)
    /\ LET m == flat[mapped + 1]
       IN  /\ originals' = Put(originals, m.key, m.at)
           /\ fields' = Put(fields, FieldName(m), FieldValue(m))
    /\ mapped' = mapped + 1
    /\ UNCHANGED <<doc, stage, loading, calls, flat, unknown>>

Parsed ==
    /\ stage = "map"
    /\ mapped = Len(flat)
    /\ stage' = "parsed"
    /\ UNCHANGED <<doc, loading, calls, flat, mapped, layers>>

Next ==
    \/ Invalid \/ Hook \/ Flatten \/ KeepWhole
    \/ FlattenMember \/ FlattenReturns \/ MapMember \/ Parsed

Spec == Init /\ [][Next]_vars

-----------------------------------------------------------------------------
(* Properties. *)

\* The values that are not taken apart: scalars, lists, and objects below MaxDepth.
Leaves ==
    {p \in DOMAIN doc : Len(p) <= MaxDepth + 1 /\ (p \notin Objects \/ Len(p) = MaxDepth + 1)}

\* Which one of the members with its key a member is.
Nth(p) == Cardinality({i \in 1..Last(p) : doc[Append(Front(p), i)].key = doc[p].key})

\* What the path to a position spells, of keys that are not empty.
FlatName(p) ==
    FlattenSeq([k \in 1..Len(p) |->
                  LET q == SubSeq(p, 1, k)
                  IN  (IF k = 1 THEN <<>> ELSE <<".">>) \o Numbered(doc[q].key, Nth(q))])

Plain(key) == key # <<>> /\ ToSet(key) \cap {"#", "."} = {}

\* When the keys of a document, as deep as it is taken apart, are not empty and have no
\* "#" or "." in them, its originals are its leaves, each under the name that its path
\* spells, whatever keys come again at whatever depth.  In any document an original is one
\* of its leaves.
LeavesAreKept ==
    stage = "parsed" /\ <<>> \in Objects =>
        /\ \A name \in DOMAIN originals : originals[name] \in Leaves
        /\ (\A p \in DOMAIN doc : Len(p) \in 1..MaxDepth + 1 => Plain(doc[p].key)) =>
              /\ DOMAIN originals = {FlatName(p) : p \in Leaves}
              /\ \A p \in Leaves : originals[FlatName(p)] = p

\* A normalized field comes from the top level: when no key there has a "#" in it, and no
\* object there stands under the empty key or one that came before, the field's value is
\* that of the last scalar whose key goes to it, or of the first list of its own name, and
\* there is no field without one.
First(i) == \A j \in 1..i - 1 : doc[<<j>>].key # doc[<<i>>].key

Sources(g) ==
    {i \in 1..doc[<<>>].size :
        \/ IsScalar(<<i>>) /\ doc[<<i>>].key \in {k \in DOMAIN FieldOf : FieldOf[k] = g}
        \/ doc[<<i>>].kind = "list" /\ doc[<<i>>].key = g /\ g \in DOMAIN FieldOf /\ First(i)}

MembersStayMembers ==
    /\ stage = "parsed"
    /\ \A i \in 1..doc[<<>>].size :
          /\ "#" \notin ToSet(doc[<<i>>].key)
          /\ <<i>> \in Objects => doc[<<i>>].key # <<>> /\ First(i)
    => \A g \in {FieldOf[k] : k \in DOMAIN FieldOf} :
          /\ g \in DOMAIN fields <=> Sources(g) # {}
          /\ \A i \in Sources(g) :
                (\A j \in Sources(g) : j <= i) =>
                    fields[g] = IF IsScalar(<<i>>) THEN Normalized(g, <<i>>) ELSE <<i>>

=============================================================================
