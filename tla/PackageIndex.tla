---------------------------- MODULE PackageIndex ----------------------------
(***************************************************************************)
(* The lookup tables of the apt package index. A name is a natural number: *)
(* its place in the byte order of names. A record has the fields package,  *)
(* provides and depends; records are numbered from 1 and 0 is None.        *)
(***************************************************************************)
EXTENDS Integers, Sequences, FiniteSets, SequencesExt

\* the members of a set of numbers in ascending order
Ascending(S) == [k \in 1 .. Cardinality(S) |->
                    CHOOSE x \in S : Cardinality({y \in S : y < x}) = k - 1]

\* finish: record numbers by (name, number), so the last record of a name is last
name_sorted(rs) ==
    SortSeq([i \in DOMAIN rs |-> i], LAMBDA a, b :
        rs[a].package < rs[b].package \/ (rs[a].package = rs[b].package /\ a < b))

\* finish: the provided names no record has, with the first record providing each
prov_sorted(rs) ==
    LET real == {rs[i].package : i \in DOMAIN rs}
        provides(i) == {rs[i].provides[k] : k \in DOMAIN rs[i].provides} \ real
        names == Ascending(UNION {provides(i) : i \in DOMAIN rs})
        first(name) == CHOOSE i \in DOMAIN rs :
                           /\ name \in provides(i)
                           /\ \A j \in DOMAIN rs : name \in provides(j) => i <= j
    IN  [k \in DOMAIN names |-> <<names[k], first(names[k])>>]

\* PackageIndexBuilder::finish
finish(rs) ==
    [records |-> rs, name_sorted |-> name_sorted(rs), prov_sorted |-> prov_sorted(rs)]

\* get: the record before the partition point, when it has the name
get(index, name) ==
    LET ub == Cardinality({i \in DOMAIN index.name_sorted :
                              index.records[index.name_sorted[i]].package <= name})
        cand == index.name_sorted[ub]
    IN  IF ub > 0 /\ index.records[cand].package = name THEN cand ELSE 0

get_provider(index, name) ==
    LET ub == Cardinality({i \in DOMAIN index.prov_sorted : index.prov_sorted[i][1] <= name})
    IN  IF get(index, name) # 0 THEN get(index, name)
        ELSE IF ub > 0 /\ index.prov_sorted[ub][1] = name THEN index.prov_sorted[ub][2]
        ELSE 0

contains(index, name) == get_provider(index, name) # 0
============================================================================
