------------------------------ MODULE HostMemory ------------------------------
(***************************************************************************)
(* What one process has learned about hosts: that a host needs the browser *)
(* (pkg/fetch/routes.go) and a session a browser earned there, its         *)
(* clearance, which plain HTTP may replay (pkg/fetch/clearances.go).  Both *)
(* are maps in memory with a table behind them (internal/store/store.go).  *)
(* A request records each at most once, so a route and a clearance are     *)
(* named by the request that recorded them, and a map is a set of requests *)
(* with at most one per host.  Both live for the same time (cli.go:106).   *)
(***************************************************************************)
EXTENDS Integers, FiniteSets

CONSTANTS Requests, Hosts,
          Kinds,          \* how a request is made: "extract", "http", ...
          ProtectedHosts  \* hosts that always take the browser

ASSUME HostMemoryAssumption == IsFiniteSet(Requests) /\ ProtectedHosts \subseteq Hosts

VARIABLES
  plan,         \* plan[r]: the kind and the host of a request
  clearances,   \* Clearances.entries
  clearanceRows,\* table clearances
  routes,       \* Routes.entries
  routeRows,    \* table routes
  expired       \* requests whose route and clearance have outlived the ttl

memoryVars == <<clearances, clearanceRows, routes, routeRows>>

HostOf(r) == plan[r].host
OfHost(h) == {r \in Requests : HostOf(r) = h}

\* A row or an entry replaces the one of its host.
Upsert(map, r) == (map \ OfHost(HostOf(r))) \cup {r}
Without_Expired(map, h) == map \ (OfHost(h) \cap expired)
Without(map, h) == map \ OfHost(h)

\* Get and Preferred drop an entry they find expired.
Live(map, h)   == (map \cap OfHost(h)) \ expired
Pruned(map, h) == map \ (OfHost(h) \cap expired)

\* Preferred: does this host take the browser?
PrefersBrowser(h) == h \in ProtectedHosts \/ Live(routes, h) # {}
AfterPreferred(h) == IF h \in ProtectedHosts THEN routes ELSE Pruned(routes, h)

\* Routes.Record: the entry, then the row, which may fail.  Nothing reads the
\* one between the two, and rows of a host are all alike but for their age.
RecordRoute(r, saved) ==
  /\ routes' = Upsert(routes, r)
  /\ routeRows' = IF saved THEN Upsert(routeRows, r) ELSE routeRows

\* Restore, in a new process: LoadRoutes and LoadClearances delete the expired
\* rows and read the rest.
Loaded(rows) == rows \ expired
RestoreClearances == clearanceRows' = Loaded(clearanceRows) /\ clearances' = clearanceRows'
RestoreRoutes     == routeRows' = Loaded(routeRows) /\ routes' = routeRows'
=============================================================================
