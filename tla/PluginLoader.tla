---------------------------- MODULE PluginLoader ----------------------------
(***************************************************************************)
(* PluginLoader and the pointers it makes: a registry of the plugins found *)
(* in the libraries a client asks it to open, and every later use of the   *)
(* instances made from it.                                                 *)
(*                                                                         *)
(* A library is a record of what LoadLibrary and LoadPlugins find out      *)
(* about it, in the order in which they do: whether the file exists, opens *)
(* and has the symbols, the version and layout it was built with, and what *)
(* it registers, as <<plugin, interface>> pairs.                           *)
(*                                                                         *)
(* Each pointer (TemplatePluginPtr) wraps a Plugin object, which has a     *)
(* reference to a shared instance and a map from interface names to places *)
(* in that instance.  A specialised wrapper (SpecializedPlugin) keeps      *)
(* iterators to the entries of its interfaces, so entries may be nulled    *)
(* and never erased.                                                       *)
(***************************************************************************)
EXTENDS Naturals, FiniteSets, Sequences

CONSTANTS Ptrs,        \* the pointer objects a client may have
          Interfaces,  \* normalised names of interfaces
          Special,     \* Special[p]: the interfaces p's type specialises
          Instances,   \* plugin instances that may exist at one time
          Null

VARIABLES life,      \* of a pointer: "none", "live" or "moved" from
          held,      \* loadedInstancePtr of the wrapper
          entries,   \* its interfaces map: name -> the instance pointed into
          provides,  \* of an instance: what it implements; Null: not there
          borrowed   \* instances a client holds a shared interface pointer to

ptrVars == <<life, held, entries, provides, borrowed>>

InterfaceMaps == UNION {[S -> Instances \cup {Null}] : S \in SUBSET Interfaces}

PtrTypeOK == /\ life \in [Ptrs -> {"none", "live", "moved"}]
             /\ held \in [Ptrs -> Instances \cup {Null}]
             /\ entries \in [Ptrs -> InterfaceMaps]
             /\ provides \in [Instances -> SUBSET Interfaces \cup {Null}]
             /\ borrowed \subseteq Instances

NoEntries == [f \in {} |-> Null]

PtrInit == /\ life = [p \in Ptrs |-> "none"]
           /\ held = [p \in Ptrs |-> Null]
           /\ entries = [p \in Ptrs |-> NoEntries]
           /\ provides = [i \in Instances |-> Null]
           /\ borrowed = {}

Exists(i) == provides[i] # Null

-----------------------------------------------------------------------------
(* PluginPrivate.                                                          *)

\* Faulty variants: the entries are left as they are, or erased.
ClearInstanceOnly(map) == map
ClearAll(map) == NoEntries

\* PluginPrivate::Clear(): every entry stays and points nowhere.
ClearedEntries(map) == [f \in DOMAIN map |-> Null]

\* Initialize(_info): the entries of an instance i just made by the factory.
InfoEntries(map, i, offers) ==
  [f \in DOMAIN map \cup offers |-> IF f \in offers THEN i ELSE map[f]]

\* Initialize(_other), after Clear(): the other's entries overwrite.
CopiedEntries(map, other) ==
  [f \in DOMAIN map \cup DOMAIN other |-> IF f \in DOMAIN other THEN other[f] ELSE map[f]]

\* What a new wrapper starts with: an entry for each iterator
\* (PrivateGetOrCreateIterator).
NewEntries(p) == [f \in Special[p] |-> Null]

\* Faulty variant: an interface pointer does not share the ownership.
HeldByPtrs(h, b) == {h[p] : p \in Ptrs} \ {Null}

\* The shared_ptr: an instance is deleted with its last owner.
Owned(h, b) == ({h[p] : p \in Ptrs} \ {Null}) \cup b

\* Sets the wrapper of p, and deletes what nobody owns any more.
SetWrapper(p, i, map, made) ==
  LET h == [held EXCEPT ![p] = i] IN
  /\ held' = h
  /\ entries' = [entries EXCEPT ![p] = map]
  /\ provides' = [j \in Instances |-> IF j \in Owned(h, borrowed) THEN made[j] ELSE Null]
  /\ UNCHANGED borrowed

-----------------------------------------------------------------------------
(* TemplatePluginPtr.                                                      *)

DefaultConstruct(p) == /\ life[p] = "none"
                       /\ life' = [life EXCEPT ![p] = "live"]
                       /\ SetWrapper(p, Null, NewEntries(p), provides)

\* TemplatePluginPtr(_info), for PluginLoader: _info is null when the name is
\* not known, and otherwise says what the plugin implements.
ConstructFrom(p, info) ==
  /\ life[p] = "none"
  /\ life' = [life EXCEPT ![p] = "live"]
  /\ \/ /\ info = Null
        /\ SetWrapper(p, Null, NewEntries(p), provides)
     \/ /\ info # Null
        /\ \E i \in Instances :
             /\ ~Exists(i)
             /\ SetWrapper(p, i, InfoEntries(ClearedEntries(NewEntries(p)), i, info),
                           [provides EXCEPT ![i] = info])

\* PrivateCopyPluginInstance: Clear(), then everything _other has by then.
\* When _other is the pointer itself it has nothing any more.
CopyInto(p, q, old) ==
  LET cleared == ClearedEntries(old) IN
  IF p = q \/ held[q] = Null
  THEN SetWrapper(p, Null, cleared, provides)
  ELSE SetWrapper(p, held[q], CopiedEntries(cleared, entries[q]), provides)

\* The copy constructor, and the casting one.
CopyConstruct(p, q) == /\ life[p] = "none"
                       /\ life[q] = "live"
                       /\ life' = [life EXCEPT ![p] = "live"]
                       /\ CopyInto(p, q, NewEntries(p))

\* operator=, of the same type or casting.
CopyAssign(p, q) == /\ life[p] = "live"
                    /\ life[q] = "live"
                    /\ CopyInto(p, q, entries[p])
                    /\ UNCHANGED life

\* Move construction and assignment, between pointers of one type: the
\* wrapper goes over and the source is left without one.
Move(p, q) ==
  /\ p # q
  /\ Special[p] = Special[q]
  /\ life[q] = "live"
  /\ life' = [life EXCEPT ![p] = "live", ![q] = "moved"]
  /\ LET h == [held EXCEPT ![p] = held[q], ![q] = Null] IN
     /\ held' = h
     /\ entries' = [entries EXCEPT ![p] = entries[q], ![q] = NoEntries]
     /\ provides' = [j \in Instances |-> IF j \in Owned(h, borrowed) THEN provides[j] ELSE Null]
  /\ UNCHANGED borrowed

\* Clear(), and operator=(nullptr).
Clear(p) == /\ life[p] = "live"
            /\ SetWrapper(p, Null, ClearedEntries(entries[p]), provides)
            /\ UNCHANGED life

\* ~TemplatePluginPtr()
Destroy(p) == /\ life[p] # "none"
              /\ life' = [life EXCEPT ![p] = "none"]
              /\ SetWrapper(p, Null, NoEntries, provides)

\* QueryInterface: through the iterator if p is specialised for f, by name
\* otherwise.
QueryInterface(p, f) == IF f \in DOMAIN entries[p] THEN entries[p][f] ELSE Null

\* HasInterface(_interfaceName)
HasInterface(p, f) == f \in DOMAIN entries[p]

\* The client keeps what QueryInterfaceSharedPtr returns.
Borrow(p, f) == /\ life[p] = "live"
                /\ QueryInterface(p, f) # Null
                /\ borrowed' = borrowed \cup {held[p]}
                /\ UNCHANGED <<life, held, entries, provides>>

\* The client lets go of its interface pointers to i.
GiveBack(i) ==
  /\ i \in borrowed
  /\ borrowed' = borrowed \ {i}
  /\ provides' = [provides EXCEPT ![i] = IF i \in Owned(held, borrowed \ {i}) THEN @ ELSE Null]
  /\ UNCHANGED <<life, held, entries>>

PtrStep == \/ \E p \in Ptrs : DefaultConstruct(p) \/ Clear(p) \/ Destroy(p)
           \/ \E p, q \in Ptrs : CopyConstruct(p, q) \/ CopyAssign(p, q) \/ Move(p, q)
           \/ \E p \in Ptrs, f \in Interfaces : Borrow(p, f)
           \/ \E i \in Instances : GiveBack(i)
-----------------------------------------------------------------------------
(* PluginLoader.                                                           *)

CONSTANTS Paths,      \* what a client may ask to load
          Library,    \* Library[path]; the macros accept one spelling of
                      \* a plugin's name
          Bases,      \* names without their "::"
          ApiVersion  \* PLUGIN_API_VERSION

\* A name as spelled, with a leading "::" or without.
Names == [base : Bases, global : BOOLEAN]

VARIABLES plugins,  \* PluginLoaderPrivate::plugins: name -> its interfaces
          opened    \* history: the paths given to LoadLibrary, each once

loaderVars == <<ptrVars, plugins, opened>>

NormalizeName(n) == [n EXCEPT !.global = TRUE]

NormalNames == {NormalizeName(n) : n \in Names}

LoaderTypeOK ==
  /\ PtrTypeOK
  /\ plugins \in UNION {[S -> SUBSET Interfaces] : S \in SUBSET NormalNames}
  /\ opened \in Seq(Paths)

LoaderInit ==
  /\ PtrInit
  /\ plugins = [n \in {} |-> {}]
  /\ opened = <<>>

\* LoadPlugins gets past its tests.  An older version is only warned about.
Usable(lib) == /\ lib.exists /\ lib.opens /\ lib.symbols
               /\ lib.version <= ApiVersion
               /\ lib.fits

\* IGNCOMMONMultiPluginInfo, called with every id until none is left: one
\* PluginInfo for each name registered, with all its interfaces.
LoadPlugins(lib) ==
  IF Usable(lib)
  THEN {[name |-> n, interfaces |-> {r[2] : r \in {x \in lib.registers : x[1] = n}}] :
          n \in {r[1] : r \in lib.registers}}
  ELSE {}

Normalized(info) == [name |-> NormalizeName(info.name),
                     interfaces |-> {NormalizeName(f) : f \in info.interfaces}]

\* Faulty variant: a plugin found again replaces the one known.
Replaced(map, infos) ==
  [n \in DOMAIN map \cup {i.name : i \in infos} |->
     IF \E i \in infos : i.name = n
     THEN (CHOOSE i \in infos : i.name = n).interfaces ELSE map[n]]

\* unordered_map::insert leaves a plugin that is known already alone.
Inserted(map, infos) ==
  [n \in DOMAIN map \cup {i.name : i \in infos} |->
     IF n \in DOMAIN map THEN map[n]
     ELSE (CHOOSE i \in infos : i.name = n).interfaces]

LoadLibrary(path) ==
  /\ plugins' = Inserted(plugins, {Normalized(i) : i \in LoadPlugins(Library[path])})
  /\ opened' = IF \E k \in DOMAIN opened : opened[k] = path THEN opened
               ELSE Append(opened, path)
  /\ UNCHANGED ptrVars

\* PrivateGetPluginInfo
GetPluginInfo(name) == IF NormalizeName(name) \in DOMAIN plugins
                       THEN plugins[NormalizeName(name)] ELSE Null

Instantiate(p, name) == /\ ConstructFrom(p, GetPluginInfo(name))
                        /\ UNCHANGED <<plugins, opened>>

LoaderNext ==
  \/ \E path \in Paths : LoadLibrary(path)
  \/ \E p \in Ptrs, name \in Names : Instantiate(p, name)
  \/ PtrStep /\ UNCHANGED <<plugins, opened>>

LoaderSpec == LoaderInit /\ [][LoaderNext]_loaderVars
-----------------------------------------------------------------------------
(* Properties.                                                             *)

\* What a pointer offers is what its instance implements, whatever it held
\* before and was cast from: every interface of the instance is there and
\* points into it, every other entry is null.
EntriesFollowInstance ==
  \A p \in Ptrs : life[p] = "live" =>
    LET offers == IF held[p] = Null THEN {} ELSE provides[held[p]] IN
    /\ offers \subseteq DOMAIN entries[p]
    /\ \A f \in DOMAIN entries[p] :
         entries[p][f] = IF f \in offers THEN held[p] ELSE Null

\* An entry some iterator of a specialised wrapper may point to is never
\* erased: as long as a pointer lives its map only grows, and it has the
\* entries its type is specialised for.
SpecialEntriesStay ==
  \A p \in Ptrs : life[p] = "live" => Special[p] \subseteq DOMAIN entries[p]

\* An instance lives as long as a pointer holds it or a client keeps one of
\* its interfaces: neither can reach a deleted one.
InstancesOutliveUsers ==
  /\ \A i \in borrowed : Exists(i)
  /\ \A p \in Ptrs : \A f \in DOMAIN entries[p] :
       entries[p][f] # Null => Exists(entries[p][f])

\* The registry is first come, first served: it knows the plugins of the
\* usable libraries opened, under their normal names, each with the interfaces
\* of the first library that had it, however names are spelled there.
RegistryIsFirstCome ==
  LET Found(k) == {Normalized(i) : i \in LoadPlugins(Library[opened[k]])}
      Has(k, n) == \E i \in Found(k) : i.name = n
  IN /\ DOMAIN plugins = UNION {{i.name : i \in Found(k)} : k \in DOMAIN opened}
     /\ \A n \in DOMAIN plugins : \A k \in DOMAIN opened :
          Has(k, n) /\ (\A j \in 1 .. k - 1 : ~Has(j, n)) =>
            [name |-> n, interfaces |-> plugins[n]] \in Found(k)

\* What a pointer offers is what its instance implements, and the entries its
\* type is specialised for stay (Plugin, SpecializedPlugin, PluginPtr).
PointersOfferTheirInstance == EntriesFollowInstance /\ SpecialEntriesStay

\* An instance lives as long as a pointer or a client has it, and the registry
\* keeps what the first library said of a plugin (PluginLoader::LoadLibrary).
PluginsOutliveTheirUsers == InstancesOutliveUsers /\ RegistryIsFirstCome

\* Plugin.hh says that HasInterface returns true if the plugin has the type of
\* interface and false otherwise: it agrees with QueryInterface.
HasInterfaceAgrees ==
  \A p \in Ptrs, f \in Interfaces :
    life[p] = "live" => (HasInterface(p, f) <=> QueryInterface(p, f) # Null)

\* PluginPtr.hh says of operator= that the pointer will now point at the same
\* plugin instance as _other, a pointer assigned to itself included.
AssignmentShares ==
  [][\A p, q \in Ptrs : CopyAssign(p, q) => held'[p] = held[q]]_loaderVars
=============================================================================
