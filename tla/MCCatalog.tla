------------------------------ MODULE MCCatalog ------------------------------
(* Instances of Catalog for TLC.                                           *)
EXTENDS Catalog, TLC

CONSTANTS clean, trans, qc, pkg, pkg2

\* The tail of a pipeline: a cleaning, its transformation, the QC report and
\* two packages of that.  An instance takes some of them; the ones it leaves
\* out count as part of those it keeps, so that a run has either a diamond
\* or a chain in which a scan can miss the middle link.
MCRank == [a \in Artifacts |->
    CASE a = clean -> 1 [] a = trans -> 2 [] a = qc -> 3 [] OTHER -> 4]
MCParents == [a \in Artifacts |->
    Artifacts \cap
    CASE a = clean -> {} [] a = trans -> {clean} [] a = qc -> {trans} [] OTHER -> {trans, qc}]
PackageSymmetry == Permutations({pkg, pkg2})
RequestSymmetry == PackageSymmetry \union Permutations(Callers)

MCVersions == {<<"robots", "1.0.0">>}
MCNoVersions == {}
=============================================================================
