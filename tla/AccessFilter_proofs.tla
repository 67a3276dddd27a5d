-------------------------- MODULE AccessFilter_proofs --------------------------
(***************************************************************************)
(* Safety of the access list (AccessFilter), for every set of destinations *)
(* and of forms an entry may have.                                         *)
(*                                                                         *)
(* What is assumed where a theorem needs it, each assumption with a        *)
(* counterexample without it: the calls that read the configuration and    *)
(* write it back do not overlap (hazard at manager.go 808), and the        *)
(* manager's filter is not replaced once a listener has it (manager.go     *)
(* 770).                                                                   *)
(***************************************************************************)
EXTENDS AccessFilter, TLAPS

OneConfigurer == \A c, d \in Configurers : c = d

-------------------------------------------------------------------------------
(* Facts about hashes *)

Hash == Dests \cup Entry

\* An entry normalizes to a destination exactly if it is one of its two spellings.
LEMMA NormalizeFacts ==
    ASSUME NEW e \in Entry
    PROVE  /\ normalizeHash(e) \in Hash \cup {NoHash}
           /\ \A d \in Dests : normalizeHash(e) = d <=> e.dest = d /\ e.form \in ReadForms
<1>1. CASE e.form \in ReadForms
  BY <1>1 DEF normalizeHash, ReadForms, Entry, Hash
<1>2. CASE e.form = "i2p"
  <2>1. normalizeHash(e) = NoHash
    BY <1>2 DEF normalizeHash, ReadForms
  <2> QED
    BY <1>2, <2>1, FilterAssumption DEF ReadForms
<1>3. CASE e.form \notin ReadForms \cup {"i2p"}
  <2>1. normalizeHash(e) = e
    BY <1>3 DEF normalizeHash
  <2> QED
    BY <1>3, <2>1, FilterAssumption DEF Hash
<1> QED
  BY <1>1, <1>2, <1>3

\* The names of one entry, and of a list with one entry more.
LEMMA NamedFacts ==
    ASSUME NEW H, NEW e, NEW F, NEW d
    PROVE  /\ d \in Named({e}, F) <=> e.form \in F /\ e.dest = d
           /\ d \in Named(H \cup {e}, F) <=> d \in Named(H, F) \/ (e.form \in F /\ e.dest = d)
<1>1. d \in Named({e}, F) <=> e.form \in F /\ e.dest = d
  BY DEF Named
<1>2. d \in Named(H, F) <=> \E x \in H : x.form \in F /\ x.dest = d
  BY DEF Named
<1>3. d \in Named(H \cup {e}, F) <=> \E x \in H \cup {e} : x.form \in F /\ x.dest = d
  BY DEF Named
<1> QED
  BY <1>1, <1>2, <1>3

\* The set a filter decides by has the destinations its entries name in standard Base64.
LEMMA HashSetNames ==
    ASSUME NEW H \in SUBSET Entry, NEW d \in Dests
    PROVE  d \in rebuildHashSet(H) <=> d \in Named(H, ReadForms)
<1>1. d \in rebuildHashSet(H) <=> \E e \in H : normalizeHash(e) = d
  BY FilterAssumption DEF rebuildHashSet
<1>2. d \in Named(H, ReadForms) <=> \E e \in H : e.form \in ReadForms /\ e.dest = d
  BY DEF Named
<1> QED
  BY <1>1, <1>2, NormalizeFacts

-------------------------------------------------------------------------------
(* The two halves of a filter *)

Filter == [mode : Modes, Hashes : SUBSET Entry, hashSet : SUBSET Hash]
Copy == [mode : Modes, Hashes : SUBSET Entry]

\* The list and the set of a filter tell the same.
Consistent(f) == f \in Filter /\ f.hashSet = rebuildHashSet(f.Hashes)

\* Every filter object is consistent, whoever configures it and however calls overlap.
ObjectsInv ==
    /\ Consistent(accessFilter) /\ Consistent(ownFilter)
    /\ editing \in [Configurers -> Copy \cup {NoCopy}]
    /\ listens \in {"no", "shared", "own"}

LEMMA NewFilterConsistent ==
    ASSUME NEW mode \in Modes, NEW H \in SUBSET Entry
    PROVE  /\ Consistent(newAccessFilter(mode, H))
           /\ newAccessFilter(mode, H).mode = mode /\ newAccessFilter(mode, H).Hashes = H
<1>1. rebuildHashSet(H) \in SUBSET Hash
  BY NormalizeFacts DEF rebuildHashSet
<1> QED
  BY <1>1 DEF newAccessFilter, Consistent, Filter

\* AddHash changes both halves alike, and adds the name that a standard entry has.
LEMMA AddConsistent ==
    ASSUME Consistent(accessFilter), NEW c \in Configurers, NEW e \in Entry, AddHash(c, e)
    PROVE  /\ Consistent(accessFilter') /\ accessFilter'.mode = accessFilter.mode
           /\ \A d \in Dests : d \in Named(accessFilter'.Hashes, ReadForms) <=>
                 \/ d \in Named(accessFilter.Hashes, ReadForms)
                 \/ e.form \in ReadForms /\ e.dest = d
<1> DEFINE f == accessFilter
           g == [f EXCEPT !.Hashes = f.Hashes \cup {e},
                          !.hashSet = f.hashSet \cup {normalizeHash(e)}]
<1>1. CASE normalizeHash(e) = NoHash
  <2>1. accessFilter' = accessFilter
    BY <1>1 DEF AddHash
  <2>2. e.form \notin ReadForms
    BY <1>1, NormalizeFacts, FilterAssumption DEF Entry
  <2> QED
    BY <2>1, <2>2
<1>2. CASE normalizeHash(e) # NoHash
  <2>1. accessFilter' = g
    BY <1>2 DEF AddHash
  <2>2. f \in Filter /\ f.hashSet = rebuildHashSet(f.Hashes)
    BY DEF Consistent
  <2> HIDE DEF f
  <2>3. f.Hashes \in SUBSET Entry /\ f.hashSet \in SUBSET Hash
    BY <2>2 DEF Filter
  <2>4. rebuildHashSet(f.Hashes \cup {e}) = rebuildHashSet(f.Hashes) \cup {normalizeHash(e)}
    BY <1>2 DEF rebuildHashSet
  <2>5. normalizeHash(e) \in Hash
    BY <1>2, NormalizeFacts
  <2>6. g \in Filter /\ g.mode = f.mode /\ g.Hashes = f.Hashes \cup {e}
        /\ g.hashSet = f.hashSet \cup {normalizeHash(e)}
    BY <2>2, <2>3, <2>5 DEF Filter
  <2> HIDE DEF g
  <2>7. Consistent(g) /\ g.mode = f.mode
    BY <2>2, <2>4, <2>6 DEF Consistent
  <2>8. \A d \in Dests : d \in Named(g.Hashes, ReadForms) <=>
           d \in Named(f.Hashes, ReadForms) \/ (e.form \in ReadForms /\ e.dest = d)
    BY <2>6, NamedFacts
  <2>9. accessFilter' = g /\ accessFilter = f
    BY <2>1 DEF f
  <2> QED
    BY <2>7, <2>8, <2>9, Zenon
<1> QED
  BY <1>1, <1>2

\* RemoveHash takes every spelling of the hash from the list, as the set needs: its
\* destination is named no more, and every other is as before.
LEMMA RemoveConsistent ==
    ASSUME Consistent(accessFilter), NEW c \in Configurers, NEW e \in Entry, RemoveHash(c, e)
    PROVE  /\ Consistent(accessFilter') /\ accessFilter'.mode = accessFilter.mode
           /\ \A d \in Dests : d \in Named(accessFilter'.Hashes, ReadForms) <=>
                 /\ d \in Named(accessFilter.Hashes, ReadForms)
                 /\ ~(e.form \in ReadForms /\ e.dest = d)
<1> DEFINE f == accessFilter
           H == {h \in f.Hashes : normalizeHash(h) # normalizeHash(e)}
           g == [f EXCEPT !.hashSet = f.hashSet \ {normalizeHash(e)}, !.Hashes = H]
<1>1. CASE normalizeHash(e) = NoHash
  <2>1. accessFilter' = accessFilter
    BY <1>1 DEF RemoveHash
  <2>2. e.form \notin ReadForms
    BY <1>1, NormalizeFacts, FilterAssumption DEF Entry
  <2> QED
    BY <2>1, <2>2
<1>2. CASE normalizeHash(e) # NoHash
  <2>1. accessFilter' = g
    BY <1>2 DEF RemoveHash
  <2>2. f \in Filter /\ f.hashSet = rebuildHashSet(f.Hashes)
    BY DEF Consistent
  <2>3. f.Hashes \in SUBSET Entry /\ f.hashSet \in SUBSET Hash /\ H \in SUBSET Entry
    BY <2>2 DEF Filter
  <2>4. rebuildHashSet(H) = rebuildHashSet(f.Hashes) \ {normalizeHash(e)}
    BY DEF rebuildHashSet
  <2>5. \A d \in Dests : d \in rebuildHashSet(H) <=>
           d \in rebuildHashSet(f.Hashes) /\ ~(e.form \in ReadForms /\ e.dest = d)
    BY <2>4, NormalizeFacts
  <2>6. \A d \in Dests : d \in Named(H, ReadForms) <=>
           d \in Named(f.Hashes, ReadForms) /\ ~(e.form \in ReadForms /\ e.dest = d)
    BY <2>3, <2>5, HashSetNames
  <2> HIDE DEF f, H
  <2>7. g \in Filter /\ g.mode = f.mode /\ g.Hashes = H
        /\ g.hashSet = f.hashSet \ {normalizeHash(e)}
    BY <2>2, <2>3 DEF Filter
  <2> HIDE DEF g
  <2>8. Consistent(g)
    BY <2>2, <2>4, <2>7 DEF Consistent
  <2> QED
    BY <2>1, <2>6, <2>7, <2>8 DEF f
<1> QED
  BY <1>1, <1>2

-------------------------------------------------------------------------------
(* What the calls ask for *)

Wanted == [mode : Modes, dests : SUBSET Dests, misread : SUBSET Dests]

\* After a call about e only its destination may have become misread, and it has not if
\* e is in standard Base64.
LEMMA AskedFacts ==
    ASSUME wanted \in Wanted, NEW e \in Entry, NEW D \in SUBSET Dests
    PROVE  /\ asked(e, D) \in Wanted
           /\ asked(e, D).mode = wanted.mode /\ asked(e, D).dests = D
           /\ \A d \in Dests \ asked(e, D).misread :
                 \/ e.form \in ReadForms /\ e.dest = d
                 \/ d \notin wanted.misread /\ ~(e.form \in MisreadForms /\ e.dest = d)
<1> DEFINE M == (wanted.misread \ Named({e}, ReadForms)) \cup Named({e}, MisreadForms)
<1>1. \A F : \A d : d \in Named({e}, F) <=> e.form \in F /\ e.dest = d
  BY NamedFacts
<1>2. M \in SUBSET Dests
  BY <1>1 DEF Wanted, Entry
<1>3. \A d : d \notin M => \/ e.form \in ReadForms /\ e.dest = d
                           \/ d \notin wanted.misread /\ ~(e.form \in MisreadForms /\ e.dest = d)
  BY <1>1
<1>4. asked(e, D) = [wanted EXCEPT !.dests = D, !.misread = M]
  BY DEF asked
<1> HIDE DEF M
<1>5. /\ asked(e, D) \in Wanted /\ asked(e, D).mode = wanted.mode
      /\ asked(e, D).dests = D /\ asked(e, D).misread = M
  BY <1>2, <1>4 DEF Wanted
<1> QED
  BY <1>3, <1>5

-------------------------------------------------------------------------------
(* The inductive invariant of FilterDecides *)

\* The manager's filter has the mode the calls have asked for and names the destinations
\* they have, but for the misread ones; a copy that is being edited has the list the
\* filter has.
NamesWanted ==
    \A d \in Dests \ wanted.misread :
       d \in wanted.dests <=> d \in Named(accessFilter.Hashes, ReadForms)

DecideInv ==
    /\ ObjectsInv
    /\ listens # "own"
    /\ wanted \in Wanted /\ wanted.mode = accessFilter.mode
    /\ NamesWanted
    /\ \A c \in Configurers : editing[c] # NoCopy => editing[c].Hashes = accessFilter.Hashes

\* One call of the manager's access list methods, or one half of one.
LEMMA ConfigureInv ==
    ASSUME OneConfigurer, ~ReplaceWhileListening,
           DecideInv, NEW c \in Configurers, Configure(c)
    PROVE  DecideInv'
<1>0. /\ Consistent(accessFilter) /\ Consistent(ownFilter)
      /\ accessFilter \in Filter /\ accessFilter.Hashes \in SUBSET Entry /\ accessFilter.mode \in Modes
      /\ editing \in [Configurers -> Copy \cup {NoCopy}] /\ listens \in {"no", "shared"}
      /\ wanted \in Wanted /\ wanted.mode = accessFilter.mode /\ wanted.dests \in SUBSET Dests
      /\ \A d \in Configurers : d = c
  BY DEF DecideInv, ObjectsInv, Consistent, Filter, Wanted, OneConfigurer
<1>1. ASSUME NEW mode \in Modes, NEW H \in SUBSET Entry, SetAccessFilter(c, mode, H)
      PROVE  DecideInv'
  <2> DEFINE R == Named(H, ReadForms)
             M == Named(H, MisreadForms)
             A == Named(H, ReadForms \cup MisreadForms)
  <2>1. /\ accessFilter' = newAccessFilter(mode, H) /\ UNCHANGED editing /\ editing[c] = NoCopy
        /\ listens = "no" /\ listens' = "no" /\ ownFilter' = ownFilter
        /\ wanted' = [mode |-> mode, dests |-> A, misread |-> M \ R]
    BY <1>1 DEF SetAccessFilter
  <2>2. Consistent(accessFilter') /\ accessFilter'.mode = mode /\ accessFilter'.Hashes = H
    BY <2>1, NewFilterConsistent
  <2>3. A = R \cup M /\ A \in SUBSET Dests
    BY DEF Named, Entry
  <2> HIDE DEF R, M, A
  <2>4. wanted' \in Wanted /\ wanted'.mode = mode /\ wanted'.dests = A /\ wanted'.misread = M \ R
    BY <2>1, <2>3 DEF Wanted
  <2>5. NamesWanted'
    BY <2>2, <2>3, <2>4 DEF NamesWanted, R
  <2> QED
    BY <1>0, <2>1, <2>2, <2>4, <2>5 DEF DecideInv, ObjectsInv
<1>2. ASSUME NEW e \in Entry, AddHash(c, e)
      PROVE  DecideInv'
  <2> DEFINE D == wanted.dests \cup Named({e}, ReadForms \cup MisreadForms)
  <2>1. UNCHANGED <<listens, ownFilter, editing>> /\ editing[c] = NoCopy /\ wanted' = asked(e, D)
    BY <1>2 DEF AddHash
  <2>2. /\ Consistent(accessFilter') /\ accessFilter'.mode = accessFilter.mode
        /\ \A d \in Dests : d \in Named(accessFilter'.Hashes, ReadForms) <=>
              \/ d \in Named(accessFilter.Hashes, ReadForms)
              \/ e.form \in ReadForms /\ e.dest = d
    BY <1>0, <1>2, AddConsistent
  <2>3. /\ D \in SUBSET Dests
        /\ \A d : d \in D <=> \/ d \in wanted.dests
                              \/ e.form \in ReadForms \cup MisreadForms /\ e.dest = d
    <3>1. \A d : d \in Named({e}, ReadForms \cup MisreadForms)
                    <=> e.form \in ReadForms \cup MisreadForms /\ e.dest = d
      BY NamedFacts
    <3> QED
      BY <1>0, <3>1 DEF Entry
  <2> HIDE DEF D
  <2>4. /\ wanted' \in Wanted /\ wanted'.mode = wanted.mode /\ wanted'.dests = D
        /\ \A d \in Dests \ wanted'.misread :
              \/ e.form \in ReadForms /\ e.dest = d
              \/ d \notin wanted.misread /\ ~(e.form \in MisreadForms /\ e.dest = d)
    BY <1>0, <2>1, <2>3, AskedFacts
  <2>5. ASSUME NEW d \in Dests \ wanted'.misread
        PROVE  d \in wanted'.dests <=> d \in Named(accessFilter'.Hashes, ReadForms)
    <3>1. d \notin wanted.misread => (d \in wanted.dests <=> d \in Named(accessFilter.Hashes, ReadForms))
      BY DEF NamesWanted, DecideInv
    <3> QED
      <4>1. d \in D <=> d \in wanted.dests \/ (e.form \in ReadForms \cup MisreadForms /\ e.dest = d)
        BY <2>3
      <4>2. \/ e.form \in ReadForms /\ e.dest = d
            \/ d \notin wanted.misread /\ ~(e.form \in MisreadForms /\ e.dest = d)
        BY <2>4
      <4>3. d \in Named(accessFilter'.Hashes, ReadForms) <=>
              d \in Named(accessFilter.Hashes, ReadForms) \/ (e.form \in ReadForms /\ e.dest = d)
        BY <2>2
      <4> QED
        BY <2>4, <3>1, <4>1, <4>2, <4>3
  <2>6. NamesWanted'
    BY <2>5 DEF NamesWanted
  <2> QED
    BY <1>0, <2>1, <2>2, <2>4, <2>6 DEF DecideInv, ObjectsInv
<1>3. ASSUME NEW e \in Entry, RemoveHash(c, e)
      PROVE  DecideInv'
  <2> DEFINE D == wanted.dests \ Named({e}, ReadForms \cup MisreadForms)
  <2>1. UNCHANGED <<listens, ownFilter, editing>> /\ editing[c] = NoCopy /\ wanted' = asked(e, D)
    BY <1>3 DEF RemoveHash
  <2>2. /\ Consistent(accessFilter') /\ accessFilter'.mode = accessFilter.mode
        /\ \A d \in Dests : d \in Named(accessFilter'.Hashes, ReadForms) <=>
              /\ d \in Named(accessFilter.Hashes, ReadForms)
              /\ ~(e.form \in ReadForms /\ e.dest = d)
    BY <1>0, <1>3, RemoveConsistent
  <2>3. /\ D \in SUBSET Dests
        /\ \A d : d \in D <=> /\ d \in wanted.dests
                              /\ ~(e.form \in ReadForms \cup MisreadForms /\ e.dest = d)
    BY <1>0, NamedFacts DEF Entry
  <2> HIDE DEF D
  <2>4. /\ wanted' \in Wanted /\ wanted'.mode = wanted.mode /\ wanted'.dests = D
        /\ \A d \in Dests \ wanted'.misread :
              \/ e.form \in ReadForms /\ e.dest = d
              \/ d \notin wanted.misread /\ ~(e.form \in MisreadForms /\ e.dest = d)
    BY <1>0, <2>1, <2>3, AskedFacts
  <2>5. ASSUME NEW d \in Dests \ wanted'.misread
        PROVE  d \in wanted'.dests <=> d \in Named(accessFilter'.Hashes, ReadForms)
    <3>1. d \notin wanted.misread => (d \in wanted.dests <=> d \in Named(accessFilter.Hashes, ReadForms))
      BY DEF NamesWanted, DecideInv
    <3> QED
      BY <2>2, <2>3, <2>4, <3>1
  <2>6. NamesWanted'
    BY <2>5 DEF NamesWanted
  <2> QED
    BY <1>0, <2>1, <2>2, <2>4, <2>6 DEF DecideInv, ObjectsInv
<1>4. CASE ClearAccessList(c)
  <2>1. /\ UNCHANGED <<listens, ownFilter, editing>> /\ editing[c] = NoCopy
        /\ wanted' = [wanted EXCEPT !.dests = {}, !.misread = {}]
        /\ accessFilter' = [accessFilter EXCEPT !.Hashes = {}, !.hashSet = {}]
    BY <1>4 DEF ClearAccessList
  <2>2. /\ accessFilter' \in Filter /\ accessFilter'.mode = accessFilter.mode
        /\ accessFilter'.Hashes = {} /\ accessFilter'.hashSet = {}
    BY <1>0, <2>1 DEF Filter
  <2>3. rebuildHashSet({}) = {} /\ Named({}, ReadForms) = {}
    BY DEF rebuildHashSet, Named
  <2>4. wanted' \in Wanted /\ wanted'.mode = wanted.mode /\ wanted'.dests = {}
    BY <1>0, <2>1 DEF Wanted
  <2>5. NamesWanted'
    BY <2>2, <2>3, <2>4 DEF NamesWanted
  <2> QED
    BY <1>0, <2>1, <2>2, <2>3, <2>4, <2>5 DEF DecideInv, ObjectsInv, Consistent
<1>5. ASSUME NEW mode \in Modes, GetConfig(c, mode)
      PROVE  DecideInv'
  <2> DEFINE k == [mode |-> mode, Hashes |-> accessFilter.Hashes]
  <2>1. editing' = [editing EXCEPT ![c] = k] /\ UNCHANGED <<accessFilter, listens, ownFilter, wanted>>
    BY <1>5 DEF GetConfig
  <2>2. k \in Copy /\ k.Hashes = accessFilter.Hashes
    BY <1>0 DEF Copy
  <2> HIDE DEF k
  <2>3. editing' \in [Configurers -> Copy \cup {NoCopy}] /\ editing'[c] = k
    BY <1>0, <2>1, <2>2
  <2>4. NamesWanted'
    BY <2>1 DEF NamesWanted, DecideInv
  <2> QED
    BY <1>0, <2>1, <2>2, <2>3, <2>4 DEF DecideInv, ObjectsInv
<1>6. CASE SetAccessListMode(c)
  <2>1. /\ editing[c] # NoCopy /\ UNCHANGED <<listens, ownFilter>>
        /\ accessFilter' = newAccessFilter(editing[c].mode, editing[c].Hashes)
        /\ wanted' = [wanted EXCEPT !.mode = editing[c].mode]
        /\ editing' = [editing EXCEPT ![c] = NoCopy]
    BY <1>6 DEF SetAccessListMode
  <2>2. /\ editing[c].mode \in Modes /\ editing[c].Hashes \in SUBSET Entry
        /\ editing[c].Hashes = accessFilter.Hashes
    BY <1>0, <2>1 DEF DecideInv, Copy
  <2>3. /\ Consistent(accessFilter') /\ accessFilter'.mode = editing[c].mode
        /\ accessFilter'.Hashes = accessFilter.Hashes
    BY <2>1, <2>2, NewFilterConsistent
  <2>4. /\ wanted' \in Wanted /\ wanted'.mode = editing[c].mode
        /\ wanted'.dests = wanted.dests /\ wanted'.misread = wanted.misread
    BY <1>0, <2>1, <2>2 DEF Wanted
  <2>5. editing' \in [Configurers -> Copy \cup {NoCopy}] /\ editing'[c] = NoCopy
    BY <1>0, <2>1
  <2>6. NamesWanted'
    BY <2>3, <2>4 DEF NamesWanted, DecideInv
  <2> QED
    BY <1>0, <2>1, <2>3, <2>4, <2>5, <2>6 DEF DecideInv, ObjectsInv
<1> QED
  BY <1>1, <1>2, <1>3, <1>4, <1>5, <1>6 DEF Configure

\* After any sequence of calls that do not overlap, the filter the listener asks decides
\* by the mode and the destinations the calls asked for: in whichever of the two standard
\* spellings a destination was last given or taken back, and whatever was said of it and
\* of others before, in any form (accesslist.go, manager.go).
THEOREM FilterAlwaysDecides ==
    ASSUME OneConfigurer, ~ReplaceWhileListening
    PROVE  FilterSpec => []FilterDecides
<1>1. FilterInit => DecideInv
  <2> SUFFICES ASSUME FilterInit PROVE DecideInv
    OBVIOUS
  <2>1. /\ Consistent(newAccessFilter("disabled", {}))
        /\ newAccessFilter("disabled", {}).mode = "disabled"
        /\ newAccessFilter("disabled", {}).Hashes = {}
    BY NewFilterConsistent DEF Modes
  <2>2. Named({}, ReadForms) = {}
    BY DEF Named
  <2>3. wanted \in Wanted
    BY DEF FilterInit, Wanted, Modes
  <2>4. NamesWanted
    BY <2>1, <2>2 DEF FilterInit, NamesWanted
  <2> QED
    BY <2>1, <2>3, <2>4 DEF FilterInit, DecideInv, ObjectsInv
<1>2. DecideInv /\ [FilterNext]_filterVars => DecideInv'
  <2> SUFFICES ASSUME DecideInv, [FilterNext]_filterVars
               PROVE  DecideInv'
    OBVIOUS
  <2>1. CASE Listen
    BY <2>1 DEF Listen, DecideInv, ObjectsInv, NamesWanted
  <2>2. CASE UNCHANGED filterVars
    BY <2>2 DEF filterVars, DecideInv, ObjectsInv, NamesWanted
  <2> QED
    BY <2>1, <2>2, ConfigureInv DEF FilterNext
<1>3. DecideInv => FilterDecides
  <2> SUFFICES ASSUME DecideInv, listens # "no", NEW d \in Dests \ wanted.misread
               PROVE  IsAllowed(listenerFilter, d) = Wished(d)
    BY DEF FilterDecides
  <2>1. /\ listenerFilter = accessFilter /\ d # NoHash
        /\ accessFilter.mode \in Modes /\ accessFilter.Hashes \in SUBSET Entry
        /\ accessFilter.hashSet = rebuildHashSet(accessFilter.Hashes)
        /\ wanted.mode = accessFilter.mode
    BY FilterAssumption DEF DecideInv, ObjectsInv, Consistent, Filter, listenerFilter
  <2>2. d \in accessFilter.hashSet <=> d \in wanted.dests
    BY <2>1, HashSetNames DEF DecideInv, NamesWanted
  <2>3. CASE wanted.mode = "disabled"
    BY <2>1, <2>3 DEF IsAllowed, Wished
  <2>4. CASE wanted.mode = "whitelist"
    <3>1. IsAllowed(listenerFilter, d) <=> d \in wanted.dests
      BY <2>1, <2>2, <2>4 DEF IsAllowed
    <3>2. IsAllowed(listenerFilter, d) \in BOOLEAN
      BY DEF IsAllowed
    <3> QED
      BY <2>4, <3>1, <3>2 DEF Wished
  <2>5. CASE wanted.mode = "blacklist"
    <3>1. IsAllowed(listenerFilter, d) <=> d \notin wanted.dests
      BY <2>1, <2>2, <2>5 DEF IsAllowed
    <3>2. IsAllowed(listenerFilter, d) \in BOOLEAN
      BY DEF IsAllowed
    <3> QED
      BY <2>5, <3>1, <3>2 DEF Wished
  <2> QED
    BY <2>1, <2>3, <2>4, <2>5 DEF Modes
<1> QED
  BY <1>1, <1>2, <1>3, PTL DEF FilterSpec
===============================================================================
