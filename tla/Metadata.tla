------------------------------ MODULE Metadata ------------------------------
(***************************************************************************)
(* workers/mercator.py and data_normalizer/: which of the manifests found  *)
(* in a source tree become the metadata of a package, and what the         *)
(* normalizers make of their values.  workers/schemas/metadata.py says     *)
(* what a result may be: BaseTask fails the task for any other.            *)
(*                                                                         *)
(* A value is its kind: "None", "str", "list" (of strings), "dicts" (a     *)
(* list of objects), "[]", "dict", "{}" or "other" (a number or Boolean);  *)
(* "raises" stands for the exception that a conversion ends with.  A "str" *)
(* is not empty, and that of a repository is a GitHub URL; an object holds *)
(* what the code asks of it.  A key that a result lacks may be None.       *)
(***************************************************************************)
EXTENDS Positions

CONSTANTS RawManifests,  (* [normalizer, raw]: the keys of a manifest      *)
          Trees          (* [eco, items]: a package and the manifests      *)
                         (* [eco, depth, egg] found in its source          *)

VARIABLE mercatorInput   (* one of them                                    *)

ASSUME MetadataAssumption ==
    /\ \A in \in RawManifests : in.normalizer \in {"npm", "maven", "nuget", "pypi", "requirements",
                                                  "glide", "godeps", "gofedlib"}
    /\ \A t \in Trees : /\ t.items \in Seq([eco : STRING, depth : Nat, egg : BOOLEAN])
                        /\ \A i \in DOMAIN t.items : t.items[i].egg => t.items[i].eco = "sdist"

(* raw.get(k, default) and raw.get(k).                                     *)
GetOr(raw, k, default) == IF k \in DOMAIN raw THEN raw[k] ELSE default
ValueOf(raw, k) == GetOr(raw, k, "None")
-----------------------------------------------------------------------------
(* _key_map: the keys to read for each new name; the first that is there   *)
(* counts.                                                                 *)
KeyMap ==
    [npm |-> [declared_licenses |-> <<"license", "licenses">>,
              _dependency_tree_lock |-> <<"_dependency_tree_lock_file">>,
              homepage |-> <<"homepage">>, version |-> <<"version">>, description |-> <<"description">>,
              dependencies |-> <<"dependencies">>, devel_dependencies |-> <<"devDependencies">>,
              bug_reporting |-> <<"bugs">>, author |-> <<"author">>, contributors |-> <<"contributors">>,
              maintainers |-> <<"maintainers">>, code_repository |-> <<"repository">>, name |-> <<"name">>,
              engines |-> <<"engine", "engines">>, git_head |-> <<"gitHead">>, readme |-> <<"readme">>,
              scripts |-> <<"scripts">>, files |-> <<"files">>, keywords |-> <<"keywords">>],
     maven |-> [name |-> <<"name">>, version |-> <<"version">>, description |-> <<"description">>,
                homepage |-> <<"url">>, declared_licenses |-> <<"licenses">>],
     nuget |-> [name |-> <<"Id">>, description |-> <<"Description">>, homepage |-> <<"ProjectUrl">>],
     pypi  |-> [description |-> <<"summary">>, dependencies |-> <<"requires_dist">>, name |-> <<"name">>,
                homepage |-> <<"home-page">>, version |-> <<"version">>, platform |-> <<"platform">>],
     glide |-> [name |-> <<"package">>, homepage |-> <<"homepage">>,
                _dependency_tree_lock |-> <<"_dependency_tree_lock_file">>],
     requirements |-> << >>,
     godeps   |-> [version |-> <<"version">>, name |-> <<"name">>, code_repository |-> <<"code_repository">>],
     gofedlib |-> [version |-> <<"version">>, name |-> <<"name">>, code_repository |-> <<"code_repository">>]]

FirstThere(raw, keys) ==
    LET there == {i \in DOMAIN keys : ValueOf(raw, keys[i]) # "None"}
    IN  IF there = {} THEN "None" ELSE ValueOf(raw, keys[FirstOf(there)])

_transform_keys(map, raw) == [o \in DOMAIN map |-> FirstThere(raw, map[o])]
-----------------------------------------------------------------------------
Listish == {"list", "dicts", "[]"}
Dictish == {"dict", "{}"}
Truthy(v) == v \notin {"None", "[]", "{}"}

(* A loop over objects: a dict is a loop over its keys, which are strings. *)
Objs == {"dicts", "[]", "{}"}

_split_keywords(v) == CASE v = "None" -> "[]" [] v \in Listish -> v [] v = "str" -> "list" [] OTHER -> "raises"

(* _identify_gh_repo.                                                      *)
GithubRepo(v) == IF ~Truthy(v) THEN "None" ELSE IF v = "str" THEN "dict" ELSE "raises"

(* [v], for a v that is there.                                             *)
ListOf(v) == IF ~Truthy(v) THEN "None" ELSE IF v = "str" THEN "list" ELSE "dicts"

(* _transform_code_repository.                                             *)
RepositoryOf(v) == IF ~Truthy(v) THEN "None" ELSE IF v = "str" THEN "dict" ELSE v

(* The methods _transform_* of NpmDataNormalizer, by the key they convert. *)
(* Strings in a list of licenses are dropped.                              *)
NpmValue(k, v) ==
    CASE k = "bug_reporting" -> IF v = "dict" THEN "str" ELSE "None"
      [] k = "author"        -> IF v \in {"dict", "list", "dicts"} THEN "str"
                                ELSE IF v = "[]" THEN "raises" ELSE "None"
      [] k = "contributors" /\ v \in {"str"} \cup Listish \cup Dictish -> "list"
      [] k = "maintainers"  /\ v \in {"str"} \cup Listish             -> "list"
      [] k = "code_repository"   -> RepositoryOf(v)
      [] k = "declared_licenses" -> IF ~Truthy(v) THEN "None" ELSE IF v = "other" THEN v ELSE "list"
      [] k = "description"       -> IF v = "dicts" THEN "raises" ELSE IF v = "None" THEN v ELSE "str"
      [] k = "engines"           -> IF v = "None" THEN v ELSE IF v = "other" THEN "raises" ELSE "dict"
      [] k \in {"keywords", "files"} -> IF v = "str" THEN "list" ELSE v
      [] k = "homepage"          -> IF v \in Dictish THEN "str" ELSE v
      [] k = "_dependency_tree_lock" -> IF v \in {"None"} \cup Dictish THEN v ELSE "raises"
      [] OTHER                   -> v

(* _transform_dependencies returns at the first section that is a list.    *)
NpmSections(data) ==
    [dependencies |-> "list",
     devel_dependencies |-> IF data["dependencies"] \in Listish THEN data["devel_dependencies"] ELSE "list"]

NpmNormalize(data) ==
    LET sections == NpmSections(data)
    IN  [k \in DOMAIN data \cup {"_tests_implemented"} |->
           IF k = "_tests_implemented" THEN "bool"
           ELSE IF k \in DOMAIN sections THEN sections[k] ELSE NpmValue(k, data[k])]

(* Keys that a normalizer sets on top of those of its map.                 *)
Updated(data, more) == [k \in DOMAIN data \cup DOMAIN more |-> IF k \in DOMAIN more THEN more[k] ELSE data[k]]

(* A scm_url that is no string raises, or is taken as it is: the schema    *)
(* wants a string.                                                         *)
MavenAdded(raw) ==
    [name |-> IF ValueOf(raw, "name") = "None" THEN "str" ELSE ValueOf(raw, "name"),
     dependencies       |-> IF GetOr(raw, "dependencies", "{}") \in Dictish THEN "list" ELSE "raises",
     devel_dependencies |-> IF GetOr(raw, "dependencies", "{}") \in Dictish THEN "list" ELSE "raises",
     code_repository |-> CASE GetOr(raw, "scm_url", "absent") = "absent" -> "None"
                           [] GetOr(raw, "scm_url", "absent") = "str"    -> "dict"
                           [] OTHER -> IF Truthy(ValueOf(raw, "scm_url")) THEN "raises" ELSE "other"]

(* The packages of all groups make one set; an empty one is left out.      *)
GroupedDependencies(v) == CASE v = "dicts" -> "list" [] v \in Objs -> "None" [] OTHER -> "raises"

(* ','.join(Authors); a version is read from its numbers only.             *)
NugetAdded(raw) ==
    LET authors == ValueOf(raw, "Authors")
        tags    == ValueOf(raw, "Tags")
    IN  [author |-> IF ~Truthy(authors) THEN "None"
                    ELSE IF authors \in {"str", "list", "dict"} THEN "str" ELSE "raises",
         declared_licenses |-> ListOf(ValueOf(raw, "LicenseUrl")),
         dependencies      |-> GroupedDependencies(GetOr(raw, "DependencyGroups", "[]")),
         code_repository   |-> IF ValueOf(raw, "Repository") = "dict" THEN "dict"
                               ELSE GithubRepo(ValueOf(raw, "ProjectUrl")),
         version  |-> IF ValueOf(raw, "Version") = "dict" THEN "str" ELSE "None",
         keywords |-> IF Truthy(tags) THEN _split_keywords(tags) ELSE "None"]

(* _join_name_email of the manifest itself: the address is appended to the *)
(* name.                                                                   *)
AuthorOf(raw) ==
    LET name == ValueOf(raw, "author")
    IN  CASE DOMAIN raw = {}                         -> "None"
          [] ~Truthy(name)                           -> "str"
          [] ValueOf(raw, "author-email") = "str" /\ name \in {"dict", "other"} -> "raises"
          [] OTHER                                   -> name

(* A metadata.json of a wheel has extensions["python.details"], which is   *)
(* here a key of its own, as are its contacts and project_urls.            *)
HasDetails(raw) == ValueOf(raw, "extensions") = "dict" /\ ValueOf(raw, "python.details") # "None"

FromDetails(raw) ==
    LET requires == {GetOr(raw, "run_requires", "[]"), GetOr(raw, "meta_requires", "[]")}
        contacts == GetOr(raw, "contacts", "[]")
        urls     == GetOr(raw, "project_urls", "{}")
    IN  [author   |-> CASE contacts = "dicts" -> "str" [] contacts \in Objs -> "None" [] OTHER -> "raises",
         homepage |-> CASE urls = "dict" -> "str" [] urls = "{}" -> "None" [] OTHER -> "raises",
         description  |-> ValueOf(raw, "summary"),
         dependencies |-> IF requires \subseteq {"dicts", "[]"} THEN "list" ELSE "raises",
         name |-> ValueOf(raw, "name"), version |-> ValueOf(raw, "version"),
         declared_licenses |-> _split_keywords(ValueOf(raw, "license"))]

FromPkgInfo(raw) ==
    Updated(_transform_keys(KeyMap["pypi"], raw),
            [author |-> AuthorOf(raw), declared_licenses |-> _split_keywords(ValueOf(raw, "license"))])

PypiAdded(raw) ==
    LET url == IF Truthy(ValueOf(raw, "home-page")) THEN ValueOf(raw, "home-page") ELSE ValueOf(raw, "download-url")
        ext == GetOr(raw, "extensions", "{}")
    IN  [code_repository |-> IF ext \in Dictish THEN GithubRepo(url) ELSE "raises",
         keywords        |-> _split_keywords(ValueOf(raw, "keywords"))]

(* The owners are joined.  'import' in the lock file: None and a number    *)
(* raise.                                                                  *)
GlideAdded(raw) ==
    LET owners == ValueOf(raw, "owners")
        lock   == ValueOf(raw, "_dependency_tree_lock_file")
        Imports(k) == IF GetOr(raw, k, "[]") \in Objs THEN "list" ELSE "raises"
    IN  [author |-> CASE ~Truthy(owners) -> "None" [] owners = "dicts" -> "str" [] OTHER -> "raises",
         declared_licenses  |-> ListOf(ValueOf(raw, "license")),
         dependencies       |-> Imports("import"),
         devel_dependencies |-> Imports("testImport"),
         _dependency_tree_lock |-> IF lock \in {"None", "other"} THEN "raises" ELSE lock]

GodepsAdded(raw) == [dependencies |-> IF GetOr(raw, "Deps", "[]") \in Objs THEN "list" ELSE "raises"]

(* set(main + packages): objects cannot be in a set.                       *)
GofedlibAdded(raw) ==
    LET kinds == {GetOr(raw, "deps-main", "[]"), GetOr(raw, "deps-packages", "[]")}
    IN  [dependencies |-> IF kinds \subseteq {"list", "[]"} \/ kinds = {"str"} THEN "list" ELSE "raises"]

Added(normalizer, raw) ==
    CASE normalizer = "maven" -> MavenAdded(raw)
      [] normalizer = "nuget" -> NugetAdded(raw)
      [] normalizer = "pypi"  -> PypiAdded(raw)
      [] normalizer = "requirements" -> [dependencies |-> GetOr(raw, "dependencies", "[]")]
      [] normalizer = "glide" -> GlideAdded(raw)
      [] normalizer = "godeps" -> GodepsAdded(raw)
      [] OTHER                -> GofedlibAdded(raw)

(* A pom.xml or .nuspec without any key has no metadata.                   *)
normalize(normalizer, raw) ==
    LET data == IF normalizer # "pypi" THEN _transform_keys(KeyMap[normalizer], raw)
                ELSE IF HasDetails(raw) THEN FromDetails(raw) ELSE FromPkgInfo(raw)
    IN  IF normalizer = "npm" THEN NpmNormalize(data)
        ELSE IF normalizer \in {"maven", "nuget"} /\ DOMAIN raw = {} THEN << >>
        ELSE Updated(data, Added(normalizer, raw))
-----------------------------------------------------------------------------
(* MetadataDict: the keys and kinds of the schema, which allows no others. *)
Strings  == {"author", "bug_reporting", "description", "ecosystem", "git_head", "homepage", "name",
             "path", "platform", "readme", "version"}
Lists    == {"declared_licenses", "dependencies", "devel_dependencies", "files", "keywords",
             "contributors", "maintainers"}
Objects  == {"engines", "metadata", "scripts", "code_repository", "_dependency_tree_lock"}

FitsKey(k, v) ==
    \/ k \in Strings /\ v \in {"None", "str"}
    \/ k \in Lists   /\ v \in {"None", "list", "[]"}
    \/ k \in Objects /\ v \in {"None"} \cup Dictish
    \/ k = "_tests_implemented" /\ v = "bool"

FitsSchema(result) == \A k \in DOMAIN result : FitsKey(k, result[k])
-----------------------------------------------------------------------------
(* get_outermost_items.                                                    *)
get_outermost_items(items) ==
    Picked(items, {i \in DOMAIN items : \A j \in DOMAIN items : items[i].depth <= items[j].depth})

(* Which of two PKG-INFO files counts: one in .egg-info, then the nearer.  *)
PreferPkgInfo(old, item) ==
    IF old.egg = item.egg THEN old.depth > item.depth ELSE item.egg

Nearer(old, item) == old.depth > item.depth

Nothing == [eco |-> "none", depth |-> 0, egg |-> FALSE]

(* The loop of _merge_python_items over the items of one kind.             *)
Takes(eco, old, item) ==
    /\ item.eco = eco
    /\ old = Nothing \/ IF eco = "sdist" THEN PreferPkgInfo(old, item) ELSE Nearer(old, item)

Chosen(items, eco) ==
    LET C[i \in 0..Len(items)] ==
          IF i = 0 THEN Nothing ELSE IF Takes(eco, C[i - 1], items[i]) THEN items[i] ELSE C[i - 1]
    IN  C[Len(items)]

(* A wheel has metadata.json two levels down, an sdist PKG-INFO at most    *)
(* five, and else requirements.txt has to do.  (The depth of the tree is   *)
(* 0.)                                                                     *)
_merge_python_items(items) ==
    LET wheel == Chosen(items, "wheel")
        sdist == Chosen(items, "sdist")
    IN  IF wheel # Nothing /\ wheel.depth = 2 THEN wheel
        ELSE IF sdist # Nothing /\ sdist.depth <= 5 THEN sdist
        ELSE Chosen(items, "requirements")

OfEcosystem(eco, items) == Picked(items, {i \in DOMAIN items : items[i].eco = eco})

(* Variant: the nearest manifest of the ecosystem.                         *)
FilterThenOutermost(eco, items) ==
    get_outermost_items(OfEcosystem(eco, items))

(* run_mercator: the manifests nearest to the root, and of those the ones  *)
(* of the ecosystem; for nuget all of them.  Only a Go tree without any    *)
(* manifest is read by gofedlib.                                           *)
Selected(eco, items) ==
    LET outer == get_outermost_items(items)
    IN  CASE eco = "pypi" -> IF _merge_python_items(items) = Nothing THEN << >>
                             ELSE <<_merge_python_items(items)>>
          [] eco = "go" /\ outer = << >> -> <<[eco |-> "gofedlib", depth |-> 0, egg |-> FALSE]>>
          [] eco = "nuget" -> outer
          [] OTHER -> OfEcosystem(eco, outer)
-----------------------------------------------------------------------------
Input(is, of) == [is |-> is, of |-> of]

MetadataInit == mercatorInput \in {Input("manifest", x) : x \in RawManifests}
                                  \cup {Input("tree", t) : t \in Trees}

(* What npm documents for package.json, and the kinds of the manifests     *)
(* that the tests of the normalizers read; any other key is a string.      *)
Documents ==
    [npm |-> [license |-> {"str", "dict"}, licenses |-> {"dicts"}, author |-> {"str", "dict"},
              contributors |-> {"list", "dicts"}, maintainers |-> {"list", "dicts"}, bugs |-> {"str", "dict"},
              repository |-> {"str", "dict"}, engine |-> {"dict"}, engines |-> {"dict"},
              keywords |-> {"list"}, files |-> {"list"}, scripts |-> {"dict"}, dependencies |-> Dictish,
              devDependencies |-> Dictish, _dependency_tree_lock_file |-> {"dict"}],
     maven |-> [licenses |-> {"list", "[]"}, dependencies |-> Dictish],
     nuget |-> [Authors |-> {"str", "list", "[]"}, DependencyGroups |-> {"dicts", "[]"},
                Repository |-> Dictish, Version |-> {"dict"}],
     pypi |-> [requires_dist |-> {"list", "[]"}, keywords |-> {"str", "list", "[]"}, extensions |-> Dictish,
               contacts |-> {"dicts", "[]"}, project_urls |-> Dictish,
               run_requires |-> {"dicts", "[]"}, meta_requires |-> {"dicts", "[]"}],
     requirements |-> [dependencies |-> {"list", "[]"}],
     glide |-> [owners |-> {"dicts", "[]"}, import |-> {"dicts", "[]"}, testImport |-> {"dicts", "[]"},
                _dependency_tree_lock_file |-> Dictish],
     godeps   |-> [Deps |-> {"dicts", "[]"}, code_repository |-> {"dict"}],
     gofedlib |-> [code_repository |-> {"dict"}]]

Documented(normalizer, k) ==
    CASE k \in DOMAIN Documents[normalizer]       -> Documents[normalizer][k]
      [] k = "python.details"                     -> Dictish
      [] k \in {"deps-main", "deps-packages"}     -> {"list", "[]"}
      [] OTHER                                    -> {"str"}

AsDocumented(in) == \A k \in DOMAIN in.raw : in.raw[k] \in Documented(in.normalizer, k)

(* The task of a package with a documented manifest does not fail, for the *)
(* values of all keys: the result fits the schema.  But a glide.yaml       *)
(* without lock file raises.                                               *)
DocumentedManifestFits ==
    mercatorInput.is = "manifest" =>
        LET in   == mercatorInput.of
            fits == FitsSchema(normalize(in.normalizer, in.raw))
        IN  IF in.normalizer = "glide" /\ "_dependency_tree_lock_file" \notin DOMAIN in.raw
            THEN ~fits
            ELSE AsDocumented(in) => fits

(* A license under either key is not lost because the other key is absent  *)
(* or says the same in another form.  (An empty "license" does hide a      *)
(* "licenses": it is there, and then it is None.)                          *)
LicenseIsNotLost ==
    mercatorInput.is = "manifest" /\ mercatorInput.of.normalizer = "npm" =>
        LET raw   == mercatorInput.of.raw
            forms == {"str", "dict", "dicts"}
        IN  /\ \E k \in {"license", "licenses"} : ValueOf(raw, k) \in forms
            /\ \A k \in {"license", "licenses"} : ValueOf(raw, k) \in forms \cup {"None"}
            => normalize("npm", raw)["declared_licenses"] = "list"

(* The manifest of a Python package does not depend on the order in which  *)
(* mercator walks the tree, up to files that are as near and of one kind.  *)
MergedWhateverTheOrder ==
    mercatorInput.is = "tree" =>
        LET items == mercatorInput.of.items
            back  == [i \in DOMAIN items |-> items[Len(items) + 1 - i]]
        IN  _merge_python_items(items) = _merge_python_items(back)

(* A manifest counts only if no manifest of any ecosystem is nearer to the *)
(* root: a dependency that is packed into the tree is not taken for the    *)
(* package, at the price of no metadata at all.                            *)
NothingFromBelow ==
    mercatorInput.is = "tree" /\ mercatorInput.of.eco # "pypi" =>
        LET items  == mercatorInput.of.items
            chosen == Selected(mercatorInput.of.eco, items)
        IN  \A i \in DOMAIN chosen, j \in DOMAIN items : chosen[i].depth <= items[j].depth

(* The metadata are those of the package, and fit the schema.              *)
MetadataIsOfPackage ==
    /\ DocumentedManifestFits
    /\ LicenseIsNotLost
    /\ MergedWhateverTheOrder
    /\ NothingFromBelow
=============================================================================
