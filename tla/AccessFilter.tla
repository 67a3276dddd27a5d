----------------------------- MODULE AccessFilter -----------------------------
(***************************************************************************)
(* The access list (accesslist.go), its configuration through the manager  *)
(* (manager.go) and the listener that asks it about every SYN (stream.go). *)
(*                                                                         *)
(* A filter keeps its list twice: the entries as they were given (a set:   *)
(* nothing depends on their order, and equal ones come and go together),   *)
(* and the set of normalized hashes it decides by.  SetAccessFilter makes a new    *)
(* filter object; a listener keeps the object it found when it was made.   *)
(* An entry is the destination it stands for and the form it is written    *)
(* in.  The comments of accesslist.go promise four: Base64 with padding or *)
(* without, Base64 in I2P's alphabet ("I2P uses this"), and the raw 32     *)
(* bytes of the hash ("Base64 encoded or raw 32-byte hashes").  The code   *)
(* makes the same hash of the first two, drops the third and never finds   *)
(* the fourth.  A fifth form, "other", is text that is no hash.            *)
(***************************************************************************)
EXTENDS Naturals, FiniteSets

CONSTANTS
    Dests,               \* remote destinations
    Forms,               \* the forms of an entry, of those below
    Configurers,         \* goroutines that call the manager's access list methods
    ReplaceWhileListening, \* is SetAccessFilter called after Listen?
    MaxHashes,           \* bound: entries of a list
    NoHash               \* the hash of nothing: ""

VARIABLES
    accessFilter,        \* sm.accessFilter: [mode, Hashes, hashSet]
    listens,             \* "no", "shared" (the manager's object) or "own" (an older one)
    ownFilter,           \* the object of the listener, when it is not the manager's
    editing,             \* configurer -> the copy GetConfig gave it, with its new mode
    wanted               \* history: what the calls ask for by the comments' word, and the
                         \* destinations they last named in a form that is not read:
                         \* [mode, dests, misread]

filterVars == <<accessFilter, listens, ownFilter, editing, wanted>>

Modes == {"disabled", "whitelist", "blacklist"}
ReadForms == {"padded", "unpadded"}
MisreadForms == {"i2p", "raw"}
Entry == [dest : Dests, form : Forms]
NoCopy == [mode |-> "none", Hashes |-> {}]

ASSUME FilterAssumption ==
    Entry \cap Dests = {} /\ NoHash \notin Dests \cup Entry

\* I2P's alphabet is no standard Base64 and normalizes to ""; what does not have the
\* length of a Base64 hash stays as it is, a raw hash too, and equals the hash of no
\* destination.  "Accepts both Base64-encoded hashes and raw byte hashes" is not so.
normalizeHash(e) == CASE e.form \in ReadForms -> e.dest
                      [] e.form = "i2p" -> NoHash
                      [] OTHER -> e

rebuildHashSet(Hashes) == {normalizeHash(e) : e \in Hashes} \ {NoHash}

newAccessFilter(mode, Hashes) ==
    [mode |-> mode, Hashes |-> Hashes, hashSet |-> rebuildHashSet(Hashes)]

\* CheckAndLog asks this, and reports the refusal.  A peer without a hash is allowed.
IsAllowed(f, d) == \/ f.mode = "disabled"
                   \/ d = NoHash
                   \/ f.mode = "whitelist" /\ d \in f.hashSet
                   \/ f.mode = "blacklist" /\ d \notin f.hashSet

listenerFilter == IF listens = "own" THEN ownFilter ELSE accessFilter

\* The destinations that the entries in one of the forms stand for.
Named(entries, forms) == {e.dest : e \in {x \in entries : x.form \in forms}}

\* A call about entry e, after which dests are wanted.
asked(e, dests) ==
    [wanted EXCEPT !.dests = dests,
                   !.misread = (@ \ Named({e}, ReadForms)) \cup Named({e}, MisreadForms)]

FilterInit ==
    /\ accessFilter = newAccessFilter("disabled", {})
    /\ listens = "no"
    /\ ownFilter = newAccessFilter("disabled", {})
    /\ editing = [c \in Configurers |-> NoCopy]
    /\ wanted = [mode |-> "disabled", dests |-> {}, misread |-> {}]
------------------------------------------------------------------------------
SetAccessFilter(c, mode, Hashes) ==
    /\ editing[c] = NoCopy
    /\ listens = "no" \/ ReplaceWhileListening
    /\ accessFilter' = newAccessFilter(mode, Hashes)
    /\ ownFilter' = IF listens = "shared" THEN accessFilter ELSE ownFilter
    /\ listens' = IF listens = "shared" THEN "own" ELSE listens
    /\ wanted' = [mode |-> mode, dests |-> Named(Hashes, ReadForms \cup MisreadForms),
                  misread |-> Named(Hashes, MisreadForms) \ Named(Hashes, ReadForms)]
    /\ UNCHANGED editing

\* newStreamListener takes the manager's filter.
Listen ==
    /\ listens = "no"
    /\ listens' = "shared"
    /\ UNCHANGED <<accessFilter, ownFilter, editing, wanted>>

\* Without a normalized hash AddHash and RemoveHash return, and tell nobody.
AddHash(c, e) ==
    /\ editing[c] = NoCopy
    /\ Cardinality(accessFilter.Hashes) < MaxHashes
    /\ accessFilter' = IF normalizeHash(e) = NoHash THEN accessFilter
                       ELSE [accessFilter EXCEPT !.Hashes = @ \cup {e},
                                                 !.hashSet = @ \cup {normalizeHash(e)}]
    /\ wanted' = asked(e, wanted.dests \cup Named({e}, ReadForms \cup MisreadForms))
    /\ UNCHANGED <<listens, ownFilter, editing>>

\* Slip: only the entry as it was written is taken from the list.
RemoveHashExact(c, e) ==
    /\ editing[c] = NoCopy
    /\ accessFilter' = IF normalizeHash(e) = NoHash THEN accessFilter
                       ELSE [accessFilter EXCEPT !.hashSet = @ \ {normalizeHash(e)},
                                                 !.Hashes = @ \ {e}]
    /\ wanted' = asked(e, wanted.dests \ Named({e}, ReadForms \cup MisreadForms))
    /\ UNCHANGED <<listens, ownFilter, editing>>

\* Every spelling of the hash leaves the list.
RemoveHash(c, e) ==
    /\ editing[c] = NoCopy
    /\ accessFilter' = IF normalizeHash(e) = NoHash THEN accessFilter
                       ELSE [accessFilter EXCEPT
                               !.hashSet = @ \ {normalizeHash(e)},
                               !.Hashes = {h \in @ : normalizeHash(h) # normalizeHash(e)}]
    /\ wanted' = asked(e, wanted.dests \ Named({e}, ReadForms \cup MisreadForms))
    /\ UNCHANGED <<listens, ownFilter, editing>>

ClearAccessList(c) ==
    /\ editing[c] = NoCopy
    /\ accessFilter' = [accessFilter EXCEPT !.Hashes = {}, !.hashSet = {}]
    /\ wanted' = [wanted EXCEPT !.dests = {}, !.misread = {}]
    /\ UNCHANGED <<listens, ownFilter, editing>>

\* SetAccessListMode and SetAccessListEnabled: a copy of the configuration ...
GetConfig(c, mode) ==
    /\ editing[c] = NoCopy
    /\ editing' = [editing EXCEPT ![c] = [mode |-> mode, Hashes |-> accessFilter.Hashes]]
    /\ UNCHANGED <<accessFilter, listens, ownFilter, wanted>>

\* ... takes the place of whatever the manager's filter has by then.
SetAccessListMode(c) ==
    /\ editing[c] # NoCopy
    /\ accessFilter' = newAccessFilter(editing[c].mode, editing[c].Hashes)
    /\ wanted' = [wanted EXCEPT !.mode = editing[c].mode]
    /\ editing' = [editing EXCEPT ![c] = NoCopy]
    /\ UNCHANGED <<listens, ownFilter>>

Configure(c) ==
    \/ \E mode \in Modes, Hashes \in SUBSET Entry :
          Cardinality(Hashes) <= MaxHashes /\ SetAccessFilter(c, mode, Hashes)
    \/ \E e \in Entry : AddHash(c, e) \/ RemoveHash(c, e)
    \/ ClearAccessList(c)
    \/ \E mode \in Modes : GetConfig(c, mode)
    \/ SetAccessListMode(c)

FilterNext == Listen \/ \E c \in Configurers : Configure(c)

FilterSpec == FilterInit /\ [][FilterNext]_filterVars
------------------------------------------------------------------------------
\* What the calls ask the filter to say of d.
Wished(d) == CASE wanted.mode = "disabled"  -> TRUE
               [] wanted.mode = "whitelist" -> d \in wanted.dests
               [] wanted.mode = "blacklist" -> d \notin wanted.dests

\* "IsAllowed checks if a connection from the given destination should be allowed":
\* after any sequence of calls, the filter the listener asks decides by the mode and the
\* destinations the calls asked for, in whichever spelling of standard Base64 an entry
\* was given, taken back or given again.  A destination that was last named in I2P's
\* alphabet or raw is left to the next property; one that was so named and since then
\* in standard Base64 is not.
FilterDecides ==
    listens # "no" =>
        \A d \in Dests \ wanted.misread : IsAllowed(listenerFilter, d) = Wished(d)

\* The same for every form the comments promise: "Base64 encoded or raw 32-byte hashes",
\* and the alphabet "I2P uses".
EveryFormDecides ==
    listens # "no" => \A d \in Dests : IsAllowed(listenerFilter, d) = Wished(d)
===============================================================================
