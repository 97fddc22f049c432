---------------------------- MODULE MCPackageDb -----------------------------
(***************************************************************************)
(* A small catalog for PackageDb: three versions of a library (its ABI     *)
(* changes once, its configuration default changes, and it drops a file),  *)
(* two of an application built against either ABI, one of which wants a    *)
(* path of the library, and a plugin above the application, also built for *)
(* another CPU profile with and without a path of the library.             *)
(***************************************************************************)
EXTENDS PackageDb, TLC

CONSTANTS lib, app, top, bin, conf, new, b, c, x, y, v1, v3

Files(at) == [q \in {bin, conf, new} |-> IF q \in DOMAIN at THEN at[q] ELSE Absent]
Deps(on) == [n \in {lib, app, top} |-> IF n \in DOMAIN on THEN on[n] ELSE None]

Archive(n, profile, abi, on, at) ==
  [name |-> n, cpu |-> profile, abi |-> abi, dependencies |-> Deps(on), files |-> Files(at)]

MCCatalog ==
  { Archive(lib, v1, x, <<>>, bin :> b @@ conf :> b),
    Archive(lib, v1, y, <<>>, bin :> c @@ conf :> c),
    Archive(lib, v1, y, <<>>, conf :> b),
    Archive(app, v1, x, lib :> x, <<>>),
    Archive(app, v1, x, lib :> y, bin :> b),
    Archive(top, v1, x, app :> x, <<>>),
    Archive(top, v3, x, <<>>, conf :> b),
    Archive(top, v3, x, <<>>, <<>>) }

MCNewOf == conf :> new
=============================================================================
