-------------------------------- MODULE Paths --------------------------------
(***************************************************************************)
(* Host paths and file URIs (internal/pathnorm).  A path is a sequence of  *)
(* characters, in which "mnt", "wsl$", "wsl.localhost", "localhost" and    *)
(* the name of a distribution stand for several letters each.  A path with *)
(* a NUL is refused, and is left out.                                      *)
(* In a URI every character has a flag that says whether it is written     *)
(* with a percent escape.                                                  *)
(***************************************************************************)
EXTENDS Integers, SequencesExt

Letters == {"c", "C"}                    \* isASCIILetter, one byte
Slash   == "/"
Back    == "\\"
Bad     == <<>>                          \* the error result: no path is empty

lower(l) == "c"
upper(l) == "C"

\* strings.EqualFold.
fold(c) == CASE c = "C" -> "c" [] c = "WSL$" -> "wsl$" [] c = "DISTRO" -> "distro" [] OTHER -> c
EqualFold(s, t) == Len(s) = Len(t) /\ \A i \in 1..Len(s) : fold(s[i]) = fold(t[i])

Split(s) ==
  FoldLeft(LAMBDA acc, c : IF c = Slash THEN Append(acc, <<>>)
                                        ELSE [acc EXCEPT ![Len(acc)] = Append(@, c)],
           << <<>> >>, s)

\* "/" before every segment.
Join(segments) == FoldLeft(LAMBDA acc, s : acc \o <<Slash>> \o s, <<>>, segments)

Replace(s, old, new) == [i \in 1..Len(s) |-> IF s[i] = old THEN new ELSE s[i]]

From(s, i) == SubSeq(s, i, Len(s))

\* path.Clean of a rooted path.
clean(p) ==
  LET kept == FoldLeft(LAMBDA acc, s :
                         IF s \in {<<>>, <<".">>} THEN acc
                         ELSE IF s = <<".", ".">> THEN IF acc = <<>> THEN acc ELSE Front(acc)
                         ELSE Append(acc, s),
                       <<>>, Split(p)) IN
  IF kept = <<>> THEN <<Slash>> ELSE Join(kept)

-----------------------------------------------------------------------------
(* Canonical paths.  env is WSL_DISTRO_NAME, empty when it is not set.     *)

isDriveLetterPath(p) ==
  Len(p) >= 2 /\ p[1] \in Letters /\ p[2] = ":" /\ (Len(p) = 2 \/ p[3] \in {Back, Slash})

isUNCPath(p) == IsPrefix(<<Back, Back>>, p)

\* splitMountDrive succeeds: the first character behind /mnt/ is the drive.
isMount(p) ==
  /\ IsPrefix(<<Slash, "mnt", Slash>>, p)
  /\ Len(p) > 3 /\ p[4] \in Letters /\ (Len(p) = 4 \/ p[5] = Slash)

canonicalPOSIX(p) ==
  LET cleaned == clean(p) IN
  IF IsPrefix(<<Slash, Slash>>, p) THEN Bad
  ELSE IF isMount(cleaned) THEN [cleaned EXCEPT ![4] = lower(@)] ELSE cleaned

isServer(name) == EqualFold(name, <<"wsl$">>) \/ EqualFold(name, <<"wsl.localhost">>)

canonicalWSLPath(server, distro, rest, env) ==
  IF ~isServer(server) \/ distro = <<>> \/ env = <<>> \/ ~EqualFold(distro, env)
    THEN Bad
    ELSE canonicalPOSIX(IF rest = <<>> THEN <<Slash>> ELSE Join(rest))

canonicalUNC(p, env) ==
  LET tail == From(p, 3)
      segments == Split(Replace(tail, Back, Slash)) IN
  IF \/ tail = <<>> \/ tail[1] \in {Back, Slash}
     \/ Len(segments) < 2 \/ segments[1] = <<>> \/ segments[2] = <<>>
    THEN Bad
    ELSE canonicalWSLPath(segments[1], segments[2], From(segments, 3), env)

Canonicalize(p, env) ==
  IF p = <<>> THEN Bad
  ELSE IF isUNCPath(p) THEN canonicalUNC(p, env)
  ELSE IF p[1] = Slash THEN canonicalPOSIX(p)
  ELSE IF isDriveLetterPath(p) /\ Len(p) > 2
    THEN LET cleaned == clean(Replace(From(p, 3), Back, Slash)) IN
         <<Slash, "mnt", Slash, lower(p[1])>> \o IF cleaned = <<Slash>> THEN <<>> ELSE cleaned
    ELSE Bad

\* WSLToWindows of a canonical path.
WSLToWindows(p, env) ==
  IF Back \in Range(p) THEN Bad
  ELSE IF isMount(p)
    THEN <<upper(p[4]), ":", Back>> \o Replace(From(p, 6), Slash, Back)
  ELSE IF env = <<>> THEN Bad
  ELSE <<Back, Back, "wsl.localhost", Back>> \o env \o Replace(p, Slash, Back)

-----------------------------------------------------------------------------
(* URIs: a host, and a path of characters with their escape flags.         *)

\* url.URL's own escapes in a path.
defaultEscape(c) == c = Back

escaped(p) == [i \in 1..Len(p) |-> <<p[i], defaultEscape(p[i])>>]

hasDriveURIPath(p) == Len(p) >= 3 /\ p[1] = Slash /\ p[2] \in Letters /\ p[3] = ":"

\* Mutant: the colon stays as it is.
fileURIPlain(p) == [host |-> <<>>, path |-> escaped(p)]

\* The URI of a canonical path: the colon of what would read as a drive is
\* escaped.
fileURI(p) ==
  [host |-> <<>>,
   path |-> IF hasDriveURIPath(p) THEN [escaped(p) EXCEPT ![3] = <<":", TRUE>>] ELSE escaped(p)]

NoURI == [host |-> Bad, path |-> Bad]    \* the error result

PathToURI(p, env) ==
  IF Canonicalize(p, env) = Bad THEN NoURI ELSE fileURI(Canonicalize(p, env))

hasEscapedDriveColon(raw) ==
  Len(raw) >= 3 /\ raw[1] = <<Slash, FALSE>> /\ raw[2][1] \in Letters /\ raw[3] = <<":", TRUE>>

uriWSLPath(host, path, env) ==
  LET tail == IF path # <<>> /\ path[1] = Slash THEN Tail(path) ELSE path
      segments == Split(tail) IN
  IF tail = <<>> THEN Bad ELSE canonicalWSLPath(host, segments[1], Tail(segments), env)

\* URIToPath of a file URI without user, query and fragment.
URIToPath(u, env) ==
  LET path == [i \in 1..Len(u.path) |-> u.path[i][1]] IN
  IF isServer(u.host) THEN uriWSLPath(u.host, path, env)
  ELSE IF (u.host # <<>> /\ ~EqualFold(u.host, <<"localhost">>)) \/ path = <<>> THEN Bad
  ELSE Canonicalize(IF hasDriveURIPath(path) /\ ~hasEscapedDriveColon(u.path)
                      THEN Tail(path) ELSE path, env)

-----------------------------------------------------------------------------

\* Every path that Canonicalize or URIToPath returns names one file in all its
\* forms: it is canonical already, its URI leads back to it, and so does its
\* Windows form if it has one; and a path and its canonical form have one URI.
PathIsIdentity(p, env) ==
  LET withColon == [i \in 1..Len(p) |-> <<p[i], defaultEscape(p[i]) \/ p[i] = ":">>]
      uris == [host : {<<>>, <<"localhost">>, <<"wsl$">>, <<"WSL$">>, <<"c">>}, path : {escaped(p), withColon}]
      results == {Canonicalize(p, env)} \cup {URIToPath(u, env) : u \in uris} IN
  /\ \A q \in results \ {Bad} :
       /\ Canonicalize(q, env) = q
       /\ URIToPath(PathToURI(q, env), env) = q
       /\ WSLToWindows(q, env) # Bad => Canonicalize(WSLToWindows(q, env), env) = q
  /\ URIToPath(PathToURI(p, env), env) = Canonicalize(p, env)

=============================================================================
