----------------------------- MODULE RepoNotice -----------------------------
(***************************************************************************)
(* osioUserNotificationFlow: RepoDependencyFinderTask resolves a maven     *)
(* repository, draws its edges in the graph and reports the dependencies   *)
(* that have CVEs, UserNotificationTask sends the report.  With a list of  *)
(* versions it asks the graph which repositories depend on them instead.   *)
(*                                                                         *)
(* A dependency is the text "ecosystem:name:version", cut into tokens      *)
(* where the ecosystem, the version or a colon occurs in it:               *)
(* "maven:org.apache.maven:core:1" is                                      *)
(* <<"maven", ":", "org.apache.", "maven", ":", "core", ":", "1">>.        *)
(***************************************************************************)
EXTENDS Positions

CONSTANTS NoticeRepos,
          CveIds,        (* the CVEs of each version [eco, name, ver] that    *)
                         (* the graph has                                     *)
          Resolutions,   (* what mvn dependency:resolve prints: [direct, all] *)
          MaxNotices

ASSUME NoticeAssumption ==
    /\ \A v \in DOMAIN CveIds : IsFiniteSet(CveIds[v])
    /\ \A res \in Resolutions :
          /\ IsFiniteSet(res.direct) /\ IsFiniteSet(res.all)
          /\ \A d \in res.direct \cup res.all :
                /\ d \in Seq(STRING) /\ Len(d) >= 5
                /\ d[1] # ":" /\ d[2] = ":" /\ d[Len(d) - 1] = ":" /\ d[Len(d)] # ":"

VARIABLES ntEdges,   (* repository -> edges [to, label, of] in the graph   *)
          ntPc, ntRepo, ntDeps,
          ntReport,  (* entries [repo, vulnerable] that wait to be sent    *)
          ntSent     (* notifications [repo, count, resolved]              *)

ntVars == <<ntEdges, ntPc, ntRepo, ntDeps, ntReport, ntSent>>

InGraph == DOMAIN CveIds

(* Python's text.replace(a + b, '').                                       *)
BeginsAt(text, a, b, i) == i \in 1..(Len(text) - 1) /\ text[i] = a /\ text[i + 1] = b

Removed(text, a, b) ==
    Picked(text, {i \in DOMAIN text : ~BeginsAt(text, a, b, i) /\ ~BeginsAt(text, a, b, i - 1)})

(* The version that a text is taken to mean: every "ecosystem:" and every  *)
(* ":version" is taken out of it for the name, wherever it occurs.         *)
NameOfText(d) == Removed(Removed(d, d[1], ":"), ":", d[Len(d)])
Vertex(d, name) == [eco |-> d[1], name |-> name, ver |-> d[Len(d)]]
VertexOf(d) == Vertex(d, NameOfText(d))

(* An edge of the dependency of; addEdge makes one for each.               *)
Edge(d, label) == [to |-> VertexOf(d), label |-> label, of |-> d]

(* get_dependencies_using_dependency_resolve calls mvn twice.              *)
Resolve(res) == [direct |-> res.direct, transitive |-> res.all \ res.direct]

Drawn(deps) == {d \in deps : VertexOf(d) \in InGraph}

EdgesTo(deps) == {Edge(d, "has_dependency") : d \in Drawn(deps.direct)}
                 \cup {Edge(d, "has_transitive_dependency") : d \in Drawn(deps.transitive)}

(* Variant: the edges of the last scan stay.                               *)
RedrawKeep(old, deps) == old \cup EdgesTo(deps)

(* The edges of the repository are dropped and drawn again, to versions    *)
(* that the graph has.                                                     *)
Redraw(old, deps) == EdgesTo(deps)

(* generate_report: a repository with any dependency in the graph has one  *)
(* entry, of the dependencies with CVEs, which may be none.                *)
generate_report(repo, edges) ==
    IF edges = {} THEN {} ELSE {[repo |-> repo, vulnerable |-> {e \in edges : CveIds[e.to] # {}}]}

(* total_cve_count: a CVE counts once for each entry that lists it.        *)
CvesOf(entries) == UNION {{<<e, c>> : c \in CveIds[e.to]} : e \in entries}
-----------------------------------------------------------------------------
NoticeInit == /\ ntEdges = [r \in NoticeRepos |-> {}]
              /\ ntPc = "idle" /\ ntRepo \in NoticeRepos
              /\ ntDeps = [direct |-> {}, transitive |-> {}]
              /\ ntReport = {} /\ ntSent = << >>

(* extract_dependencies with user_flow.                                    *)
ResolveRepo ==
    /\ ntPc = "idle" /\ Len(ntSent) < MaxNotices
    /\ \E repo \in NoticeRepos, res \in Resolutions : ntRepo' = repo /\ ntDeps' = Resolve(res)
    /\ ntPc' = "draw"
    /\ UNCHANGED <<ntEdges, ntReport, ntSent>>

(* create_repo_node_and_get_cve is one request; it may fail before or      *)
(* after the graph has done it.                                            *)
DrawAndReport ==
    /\ ntPc = "draw"
    /\ \/ /\ ntEdges' = [ntEdges EXCEPT ![ntRepo] = Redraw(@, ntDeps)]
          /\ ntReport' = generate_report(ntRepo, ntEdges'[ntRepo])
          /\ ntPc' = "notify"
       \/ /\ ntEdges' \in {ntEdges, [ntEdges EXCEPT ![ntRepo] = Redraw(@, ntDeps)]}
          /\ ntPc' = "idle"
          /\ UNCHANGED ntReport
    /\ UNCHANGED <<ntRepo, ntDeps, ntSent>>

(* With an epv_list get_cve asks for the repositories that depend on any   *)
(* mix of their ecosystems, names and versions and have a dependency with  *)
(* CVEs.  generate_report is then given a list, *)
(* which has no items(): the task fails as soon as there is such a         *)
(* repository, and without one there is nothing to send.                   *)
AskForVersions ==
    /\ ntPc = "idle" /\ Len(ntSent) < MaxNotices
    /\ \E asked \in (SUBSET UNION {res.all : res \in Resolutions}) \ {{}} :
          LET within == [eco : {d[1] : d \in asked}, name : {NameOfText(d) : d \in asked},
                         ver : {d[Len(d)] : d \in asked}]
              rows == {r \in NoticeRepos : /\ \E e \in ntEdges[r] : e.to \in within
                                           /\ \E e \in ntEdges[r] : CveIds[e.to] # {}}
          IN  ntPc' = IF rows = {} THEN "notify" ELSE "idle"
    /\ UNCHANGED <<ntEdges, ntRepo, ntDeps, ntReport, ntSent>>

(* UserNotificationTask: one request for each entry; an answer other than  *)
(* 202 is noted and the next one is sent.                                  *)
Notify ==
    /\ ntPc = "notify"
    /\ IF ntReport = {} THEN ntPc' = "idle" /\ UNCHANGED <<ntReport, ntSent>>
       ELSE \E r \in ntReport :
               /\ ntSent' = Append(ntSent, [repo |-> r.repo, resolved |-> ntDeps,
                                            count |-> Cardinality(CvesOf(r.vulnerable))])
               /\ ntReport' = ntReport \ {r}
               /\ UNCHANGED ntPc
    /\ UNCHANGED <<ntEdges, ntRepo, ntDeps>>

NoticeNext == ResolveRepo \/ DrawAndReport \/ AskForVersions \/ Notify

NoticeSpec == NoticeInit /\ [][NoticeNext]_ntVars
-----------------------------------------------------------------------------
(* The version that a text names, and the texts that are not read back: a  *)
(* part of the name ends with the ecosystem, or one after the first begins *)
(* with the version.                                                       *)
Meant(d) == Vertex(d, SubSeq(d, 3, Len(d) - 2))

Ambiguous(d) == \/ \E i \in 3..(Len(d) - 1) : d[i] = d[1] /\ d[i + 1] = ":"
                \/ \E i \in 3..(Len(d) - 2) : d[i] = ":" /\ d[i + 1] = d[Len(d)]

KnownOf(deps) == {d \in deps.direct \cup deps.transitive : Meant(d) \in InGraph}
Clear(deps)   == {d \in KnownOf(deps) : ~Ambiguous(d)}
OwnCves(S)    == UNION {{<<d, c>> : c \in CveIds[Meant(d)]} : d \in S}

(* The user is told of every CVE of the versions that the build uses and   *)
(* whose names are read back, each version once, although mvn lists the    *)
(* direct ones twice; of no other one when all names are.                  *)
CountIsOfTheBuild ==
    \A i \in DOMAIN ntSent :
        LET deps == ntSent[i].resolved
        IN  /\ ntSent[i].count >= Cardinality(OwnCves(Clear(deps)))
            /\ (\A d \in deps.direct \cup deps.transitive : ~Ambiguous(d)) =>
                  ntSent[i].count = Cardinality(OwnCves(KnownOf(deps)))

(* What a repository no longer uses is not reported for it: all edges are  *)
(* of one scan, a dependency has one of the two labels, and a version in   *)
(* the graph is missed or confused only if its name is ambiguous.          *)
EdgesOfOneScan ==
    \A r \in NoticeRepos :
        /\ \E res \in Resolutions \cup {[direct |-> {}, all |-> {}]} :
              LET deps == Resolve(res)
              IN  /\ {e.of : e \in ntEdges[r]} \subseteq deps.direct \cup deps.transitive
                  /\ Clear(deps) \subseteq {e.of : e \in ntEdges[r]}
        /\ \A e, f \in ntEdges[r] : e.of = f.of => e = f
        /\ \A e \in ntEdges[r] : ~Ambiguous(e.of) => e.to = Meant(e.of)

(* The graph and the notification speak of one and the same build.         *)
NoticeIsOfTheBuild == CountIsOfTheBuild /\ EdgesOfOneScan
=============================================================================
