------------------------------- MODULE Names -------------------------------
(***************************************************************************)
(* f8a_worker/utils.py: Maven coordinates, package names and the URLs of   *)
(* repositories.  Coordinates are the sequence of the parts between their  *)
(* colons, a package name the sequence of its characters (for Go also the  *)
(* escapes "%2F" and "%25" as "%" and two digits), and a URL a record of   *)
(* its scheme, user, host, separator and path segments (".git" at the end  *)
(* is cut wherever a path is read).                                        *)
(***************************************************************************)
EXTENDS Positions

CONSTANTS Coordinates,   (* coordinate strings to try                      *)
          PackageNames,  (* names of [backend, chars]                      *)
          Urls           (* URLs of repositories                           *)

VARIABLE named   (* one of them: [kind, of]                                *)

ASSUME NamesAssumption ==
    /\ Coordinates \subseteq Seq(STRING)
    /\ \A n \in PackageNames : n.chars \in Seq(STRING)
    /\ Urls \subseteq [scheme : STRING, user : STRING, host : STRING, sep : {"/", ":"}, path : Seq(STRING)]

Gav(g, a, p, c, v) == [groupId |-> g, artifactId |-> a, packaging |-> p,
                       classifier |-> c, version |-> v]

NoCoordinates == Gav("", "", "", "", "")   (* stands for the ValueError    *)

OrJar(p) == IF p = "" THEN "jar" ELSE p

(* from_str and _parse_string: the number of colons says what the parts    *)
(* are; the constructor turns an empty packaging into jar.                 *)
from_str(s) ==
    IF Len(s) = 2 THEN Gav(s[1], s[2], "jar", "", "")
    ELSE IF Len(s) = 3 THEN Gav(s[1], s[2], "jar", "", s[3])
    ELSE IF Len(s) = 4 THEN Gav(s[1], s[2], OrJar(s[3]), "", s[4])
    ELSE IF Len(s) = 5 THEN Gav(s[1], s[2], OrJar(s[3]), s[4], s[5])
    ELSE NoCoordinates

(* The version is the last part of every form but groupId:artifactId, and  *)
(* a classifier makes the packaging appear, if only as the empty string.   *)
to_str(c, omit) ==
    LET packaging == IF c.packaging = "jar" THEN "" ELSE c.packaging
        version   == IF omit THEN "" ELSE c.version
    IN  IF c.classifier # "" THEN <<c.groupId, c.artifactId, packaging, c.classifier, version>>
        ELSE IF packaging # "" THEN <<c.groupId, c.artifactId, packaging, version>>
        ELSE IF version # "" THEN <<c.groupId, c.artifactId, version>>
        ELSE <<c.groupId, c.artifactId>>

normalize_str(s) == to_str(from_str(s), FALSE)

(* What add_maven_coords_to_set adds for coordinates that parse.           *)
MavenEpv(s) == LET c == from_str(s) IN <<"maven", c.groupId, c.artifactId, c.version>>
-----------------------------------------------------------------------------
Separators == {"-", "_", "."}

LowerOf == [x \in {"A", "B"} |-> IF x = "A" THEN "a" ELSE "b"]

Lowercase(x) == IF x \in DOMAIN LowerOf THEN LowerOf[x] ELSE x

(* re.sub(r'[-_.]+', '-', name).lower(): the first of a run stays.        *)
DashForRuns(s) ==
    LET kept    == {i \in DOMAIN s : ~(i > 1 /\ s[i - 1] \in Separators /\ s[i] \in Separators)}
        char(i) == IF s[i] \in Separators THEN "-" ELSE Lowercase(s[i])
    IN  Picked([i \in DOMAIN s |-> char(i)], kept)

(* unquote(name): each escape becomes the character it stands for, once.   *)
Escape(s, i) == s[i] = "%" /\ i < Len(s) /\ s[i + 1] \in {"2F", "25"}

Unquoted(s) ==
    LET kept    == {i \in DOMAIN s : ~(i > 1 /\ Escape(s, i - 1))}
        char(i) == IF ~Escape(s, i) THEN s[i] ELSE IF s[i + 1] = "2F" THEN "/" ELSE "%"
    IN  Picked([i \in DOMAIN s |-> char(i)], kept)

normalize_package_name(backend, name) ==
    CASE backend = "pypi"  -> DashForRuns(name)
      [] backend = "maven" -> normalize_str(name)
      [] backend = "go"    -> Unquoted(name)
      [] OTHER             -> name
-----------------------------------------------------------------------------
NoRepo == << >>

Http(u) == [u EXCEPT !.scheme = "http", !.user = "", !.sep = "/"]

(* user@github.com:path becomes a URL; then the host must be GitHub's and  *)
(* the path is cut to two segments.                                        *)
parse_gh_repo(u) ==
    LET w == IF u.user # "" /\ u.host = "github.com" /\ u.sep = ":" THEN Http(u) ELSE u
    IN  IF /\ w.scheme \in {"", "http", "https", "git", "git+https"}
           /\ w.user = "" /\ w.sep = "/"
           /\ w.host \in {"github.com", "www.github.com"}
           /\ Len(w.path) >= 2
        THEN <<w.path[1], w.path[2]>>
        ELSE NoRepo

(* Variant: the colon stays in the URL.                                    *)
UrlKeepsColon(u) == IF u.scheme = "" THEN [u EXCEPT !.scheme = "https", !.user = ""] ELSE u

(* git+X becomes X, git@host:path becomes https://host/path, and a URL of  *)
(* another scheme than http, https and git gets "http://" in front: its    *)
(* own scheme is then the host, which is written here as a scheme of       *)
(* another kind.  (git@host/path raises, and parse_gh_repo knows no such   *)
(* form.)                                                                  *)
url2git_repo(u) ==
    CASE u.scheme = "git+https" -> [u EXCEPT !.scheme = "https"]
      [] u.scheme = "git+ssh"   -> [u EXCEPT !.scheme = "ssh"]
      [] u.scheme = "" /\ u.user = "git" /\ u.sep = ":" ->
             [u EXCEPT !.scheme = "https", !.user = "", !.sep = "/"]
      [] u.scheme = "" /\ u.user # "git" -> [u EXCEPT !.scheme = "http"]
      [] u.scheme = "ssh"                -> [u EXCEPT !.scheme = "http://ssh"]
      [] OTHER                           -> u
-----------------------------------------------------------------------------
Named(kind, of) == [kind |-> kind, of |-> of]

NameInit == named \in {Named("coordinates", s) : s \in Coordinates}
                      \cup {Named("name", n) : n \in PackageNames}
                      \cup {Named("url", u) : u \in Urls}

(* The normal form of coordinates is read back as the same coordinates:    *)
(* the name that init_analysis_flow stores and the one that postgres.py    *)
(* looks up are one, however often a name is normalised on its way.        *)
CoordinatesSurvive ==
    named.kind = "coordinates" /\ from_str(named.of) # NoCoordinates =>
        /\ from_str(normalize_str(named.of)) = from_str(named.of)
        /\ LET c == from_str(named.of)
           IN  from_str(to_str(c, TRUE)) = Gav(c.groupId, c.artifactId, c.packaging, c.classifier, "")

(* PEP 503, which the code quotes: names that differ in case or in a run   *)
(* of separators only are one name, and normalising twice changes nothing: *)
(* every flow that is given a name normalises it again.  For Go that needs *)
(* a name in which no percent sign is escaped.                             *)
NormalNameIsStable ==
    /\ /\ named.kind = "name" /\ named.of.backend = "go"
       /\ \A i \in DOMAIN named.of.chars : named.of.chars[i] # "25"
       => Unquoted(Unquoted(named.of.chars)) = Unquoted(named.of.chars)
    /\ named.kind = "name" /\ named.of.backend = "pypi" =>
         LET n == DashForRuns(named.of.chars)
         IN  /\ DashForRuns(n) = n
             /\ \A i \in 1..(Len(n) - 1) : ~(n[i] \in Separators /\ n[i + 1] \in Separators)
             /\ \A x \in Separators : \A i \in DOMAIN n :
                    n[i] = "-" => DashForRuns([n EXCEPT ![i] = x]) = n

(* Git.clone clones url2git_repo(url): the repository that GithubTask      *)
(* would name for that URL, for every form that parse_gh_repo reads.       *)
ClonedIsTheNamedRepo ==
    named.kind = "url" /\ parse_gh_repo(named.of) # NoRepo =>
        parse_gh_repo(url2git_repo(named.of)) = parse_gh_repo(named.of)

(* One thing has one name, by whichever way its name was normalised.       *)
NamesAgree ==
    /\ CoordinatesSurvive
    /\ NormalNameIsStable
    /\ ClonedIsTheNamedRepo
=============================================================================
