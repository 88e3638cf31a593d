--------------------------- MODULE MCDependencyTxn -------------------------
(***************************************************************************)
(* Four payload files, two of UE4SS and two of the injector;               *)
(* installed_state looks for all but the last.                             *)
(***************************************************************************)
EXTENDS DependencyTxn

MCMarkers == {1, 2, 3}
MCKindOf == <<"UE4SS", "UE4SS", "TesSyncMapInjector", "TesSyncMapInjector">>
=============================================================================
