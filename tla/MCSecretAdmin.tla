---------------------------- MODULE MCSecretAdmin ---------------------------
(* Instances of SecretAdmin for TLC.                                        *)
EXTENDS SecretAdmin, FiniteSets, TLC

\* Sessions that may not reveal, that are kept out of prod, of another project, of
\* no project.
NoReveal == [FullScope EXCEPT !.operations = {"metadata", "inject"}]
NoProd == [FullScope EXCEPT !.environments = Environments \ {"prod"}]
Elsewhere == [FullScope EXCEPT !.projects = {"lab"}]
Nowhere == [FullScope EXCEPT !.projects = {}]

Pairs == {S \in SUBSET Ops : Cardinality(S) = 2}

\* Two operations, nothing serialized.  The edits and removals of people are among
\* the operations one by one; a session's, which wait for nobody, change what
\* another operation has read in all the ways that theirs do.
Together(vaults, editors, scopes) ==
  {[vault |-> v, ops |-> pair, alone |-> FALSE, editors |-> editors, importing |-> FALSE,
    scopes |-> scopes] : v \in vaults, pair \in Pairs}

Overlapping ==
  Together({Global}, {"mcp"}, {FullScope})
    \union Together({Global}, {}, {NoReveal, NoProd})
    \union Together({"shop", Global}, {}, {Elsewhere, Nowhere})

\* One operation at a time, only people edit: three of them, or two with imports.
OneByOne(ops, importing) ==
  [vault |-> Global, ops |-> ops, alone |-> TRUE, editors |-> Faces \ {"mcp"},
   importing |-> importing, scopes |-> {FullScope}]

SomeRegimes ==
  Overlapping \union {OneByOne(Ops, FALSE)} \union {OneByOne(pair, TRUE) : pair \in Pairs}

\* One operation of any face.
SingleOperation ==
  {[vault |-> Global, ops |-> {o}, alone |-> FALSE, editors |-> Faces, importing |-> FALSE,
    scopes |-> {FullScope}] : o \in Ops}

Symmetry == Permutations(Ops)
=============================================================================
