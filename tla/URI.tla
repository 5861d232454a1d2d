-------------------------------- MODULE URI --------------------------------
(***************************************************************************)
(* URI.cc: a URI as it is read from a text, changed part by part and       *)
(* written again.  A text is a sequence of symbols: a word ("a" or         *)
(* "file"), a number ("7"), a space, "%" for an encoded slash and the      *)
(* characters that separate parts.                                         *)
(***************************************************************************)
EXTENDS Integers, Sequences, SequencesExt, TLC

CONSTANTS Spellings,  \* the texts that are parsed
          Reparsed,   \* bound: those that are parsed into a URI in use
          Parts,      \* what is pushed to a path, and keys and values of a query
          MaxEdits    \* bound: changes of a URI

VARIABLES uri,   \* what the URI holds
          edits  \* how many changes there were

uriVars == <<uri, edits>>
Cleared == [scheme |-> << >>, user |-> << >>, host |-> << >>, port |-> << >>,
            emptyHostValid |-> FALSE, hasEmptyHost |-> FALSE,
            path |-> << >>, isAbsolute |-> FALSE, trailingSlash |-> FALSE,
            query |-> << >>, fragment |-> << >>]
-----------------------------------------------------------------------------
Words == {"a", "file"}
Numbers == {"7"}
UserInfoChars == Words \cup Numbers \cup {"%", "&", "="}
HostChars == Words \cup Numbers \cup {"%", "[", "]", " ", ":"}
PathChars == Words \cup Numbers \cup {"/", ":", "@", "%", "&", "=", "[", "]", " "}
PathCharsFirst == Words \cup Numbers \cup {":", "%", "[", "/"}
QueryChars == Words \cup Numbers \cup {"/", "?", ":", "@", "%", "&", "="}

\* The only member of a set: what a bound name stands for is evaluated once.
The(S) == CHOOSE x \in S : TRUE

\* Where one of the symbols is first found from an index on; 0 is nowhere.
Find(s, symbols, from) ==
  LET at == {i \in from..Len(s) : s[i] \in symbols}
  IN IF at = {} THEN 0 ELSE CHOOSE i \in at : \A j \in at : i <= j
Before(s, i) == IF i = 0 THEN s ELSE SubSeq(s, 1, i - 1)
From(s, i) == IF i = 0 THEN << >> ELSE SubSeq(s, i, Len(s))
\* The first symbol is not looked at.
AllBut1st(s, symbols) == \A i \in 2..Len(s) : s[i] \in symbols

Trimmed(s) ==
  LET solid == {i \in DOMAIN s : s[i] # " "}
  IN SelectSeq([i \in DOMAIN s |-> IF \E j, k \in solid : j <= i /\ i <= k THEN s[i] ELSE ""],
               LAMBDA c : c # "")

\* What is between the delimiters, unless that is nothing.
split(s, delim) ==
  LET add(parts, c) == IF c = delim THEN Append(parts, << >>)
                       ELSE [parts EXCEPT ![Len(parts)] = Append(@, c)]
  IN SelectSeq(FoldLeft(add, <<<< >>>>, s), LAMBDA part : part # << >>)

Joined(parts, delim) ==
  FoldLeft(LAMBDA s, p : (IF p = 1 THEN s ELSE s \o delim) \o parts[p], << >>, [p \in DOMAIN parts |-> p])
-----------------------------------------------------------------------------
\* An address in brackets is cut after as many symbols as there are before its
\* end in all of the text.
AuthorityParts(s) ==
  LET at == Find(s, {"@"}, 1)
      start == IF at = 0 THEN 3 ELSE at + 1
      open == Find(s, {"["}, start)
      close == Find(s, {"]"}, open)
      colon == Find(s, {":"}, start)
      host == IF open # 0 THEN SubSeq(s, open, IF open + close - 2 < Len(s) THEN open + close - 2 ELSE Len(s))
              ELSE From(Before(s, colon), start)
      portAt == Find(s, {":"}, start + Len(host))
  IN [user |-> IF at = 0 THEN << >> ELSE SubSeq(s, 3, at - 1), host |-> host,
      closed |-> open = 0 \/ close # 0,
      port |-> IF portAt = 0 THEN << >> ELSE SubSeq(s, portAt + 1, Len(s))]

AuthorityValid(s, emptyHostValid) ==
  \E t \in {Trimmed(s)} : \E parts \in {AuthorityParts(t)} :
     \/ t = << >>
     \/ /\ IsPrefix(<<"/", "/">>, t) /\ parts.closed
        /\ parts.host # << >> \/ emptyHostValid
        /\ AllBut1st(parts.user, UserInfoChars) /\ AllBut1st(parts.host, HostChars)
        /\ AllBut1st(parts.port, Numbers)

\* A port that is no number is no port.
AuthorityParse(u, s, emptyHostValid) ==
  LET set == [u EXCEPT !.emptyHostValid = emptyHostValid]
      WithParts(parts) ==
        [set EXCEPT !.user = parts.user, !.host = parts.host,
                    !.port = IF parts.port # << >> /\ parts.port[1] \in Numbers THEN parts.port ELSE << >>]
  IN IF s \in {<< >>, <<"/", "/">>} THEN [set EXCEPT !.hasEmptyHost = TRUE]
     ELSE The({WithParts(parts) : parts \in {AuthorityParts(s)}})

AuthorityStr(u) ==
  IF u.host = << >> /\ ~(u.emptyHostValid /\ u.hasEmptyHost) THEN << >>
  ELSE <<"/", "/">> \o (IF u.user = << >> THEN << >> ELSE Append(u.user, "@")) \o u.host
                    \o (IF u.port = << >> THEN << >> ELSE <<":">> \o u.port)
-----------------------------------------------------------------------------
PathValid(s) ==
  \E t \in {Trimmed(s)} :
     /\ t # << >> \/ s = << >>
     /\ t # << >> => t[1] \in PathCharsFirst
     /\ \A i \in DOMAIN t : t[i] \in PathChars

PathParse(u, s) ==
  [u EXCEPT !.path = split(s, "/"),
            !.isAbsolute = s # << >> /\ s[1] = "/",
            !.trailingSlash = Len(s) > 1 /\ Last(s) = "/"]

PathStr(u) ==
  (IF u.isAbsolute THEN <<"/">> ELSE << >>) \o Joined(u.path, <<"/">>)
    \o (IF u.trailingSlash THEN <<"/">> ELSE << >>)

\* For the mutants: slashes stay what they are.
Unencoded(part) == part
Encoded(part) == [i \in DOMAIN part |-> IF part[i] = "/" THEN "%" ELSE part[i]]

\* A slash in front makes the path absolute, at the front of any path and at the
\* back of an empty one.
PushFront(u, part) ==
  LET slash == part[1] = "/"
      pushed == Encoded(IF slash THEN Tail(part) ELSE part)
  IN [u EXCEPT !.isAbsolute = @ \/ slash,
               !.path = IF pushed = << >> THEN @ ELSE <<pushed>> \o @]
PushBack(u, part) ==
  LET slash == u.path = << >> /\ part[1] = "/"
  IN [u EXCEPT !.isAbsolute = @ \/ slash,
               !.path = Append(@, Encoded(IF slash THEN Tail(part) ELSE part))]
-----------------------------------------------------------------------------
\* Of a query and of a fragment.
TailValid(s, first) ==
  \E t \in {Trimmed(s)} : t = << >> \/ (t[1] = first /\ AllBut1st(t, QueryChars))

QueryParse(u, s) ==
  LET values(q) == split(q, "=")
      entry(q) == IF Len(values(q)) = 2 THEN values(q) ELSE <<q, << >>>>
      all == split(Tail(s), "&")
  IN [u EXCEPT !.query = IF s = << >> THEN << >> ELSE [i \in DOMAIN all |-> entry(all[i])]]

QueryStr(u) ==
  LET entry(e) == IF e[2] = << >> THEN e[1] ELSE e[1] \o <<"=">> \o e[2]
  IN IF u.query = << >> THEN << >>
     ELSE <<"?">> \o Joined([i \in DOMAIN u.query |-> entry(u.query[i])], <<"&">>)

FragmentParse(u, s) == [u EXCEPT !.fragment = IF s = << >> THEN << >> ELSE Tail(s)]
FragmentStr(u) == IF u.fragment = << >> THEN << >> ELSE <<"#">> \o u.fragment
-----------------------------------------------------------------------------
\* Path, query and fragment in what is behind the authority.
ScanTail(tail) ==
  LET end == Find(tail, {"?", "#"}, 1)
      more == From(tail, end)
      hash == Find(more, {"#"}, 1)
  IN [path |-> Before(tail, end), fragment |-> From(more, hash),
      query |-> IF Find(more, {"?"}, 1) = 0 THEN << >> ELSE Before(more, hash)]

\* What is behind the scheme.  A drive, which only Parse looks for, is no
\* authority.
ScanRest(rest, drives) ==
  LET slashes == IsPrefix(<<"/", "/">>, rest)
      end == Find(rest, {"/", "?", "#"}, 3)
      drive == drives /\ slashes /\ end # 0 /\ rest[end - 1] = ":" /\ rest[end] = "/"
      tail == IF drive THEN From(rest, 3) ELSE IF slashes THEN From(rest, end) ELSE rest
  IN [present |-> slashes /\ ~drive, noHost |-> slashes /\ end = 3,
      authority |-> IF slashes /\ ~drive THEN Before(rest, end) ELSE << >>]
     @@ The({ScanTail(t) : t \in {tail}})

\* Where a text has which component.
Scan(s, drives) ==
  LET colon == Find(s, {":"}, 1)
  IN [colon |-> colon, scheme |-> Before(s, colon)]
     @@ The({ScanRest(rest, drives) : rest \in {From(s, colon + 1)}})

IsFile(c) == c.scheme = <<"file">>
AuthorityRead(c) == ~IsFile(c) \/ c.present

Valid(s) ==
  \E c \in {Scan(Trimmed(s), FALSE)} :
     /\ c.colon > 1 /\ (IsFile(c) \/ ~c.noHost)
     /\ AuthorityRead(c) => AuthorityValid(c.authority, IsFile(c))
     /\ PathValid(c.path) /\ TailValid(c.query, "?") /\ TailValid(c.fragment, "#")

\* Of a path everything but its trailing slash is cleared, and copied.
Clear(u) == [Cleared EXCEPT !.trailingSlash = u.trailingSlash]

\* What is in front of a component that is not valid is read all the same.
ParseScanned(u, c) ==
  LET start == [Clear(u) EXCEPT !.scheme = c.scheme]
      host == IF AuthorityRead(c) THEN AuthorityParse(start, c.authority, IsFile(c)) ELSE start
      path == PathParse(host, c.path)
      query == QueryParse(path, c.query)
  IN IF AuthorityRead(c) /\ ~AuthorityValid(c.authority, IsFile(c)) THEN [uri |-> start, ok |-> FALSE]
     ELSE IF ~PathValid(c.path) THEN [uri |-> host, ok |-> FALSE]
     ELSE IF ~TailValid(c.query, "?") THEN [uri |-> path, ok |-> FALSE]
     ELSE IF ~TailValid(c.fragment, "#") THEN [uri |-> query, ok |-> FALSE]
     ELSE [uri |-> FragmentParse(query, c.fragment), ok |-> TRUE]

Parse(u, s) == IF Valid(s) THEN The({ParseScanned(u, c) : c \in {Scan(s, TRUE)}})
               ELSE [uri |-> u, ok |-> FALSE]

Str(u) ==
  (IF u.scheme = << >> THEN << >> ELSE Append(u.scheme, ":"))
    \o AuthorityStr(u) \o PathStr(u) \o QueryStr(u) \o FragmentStr(u)

Equal(u, v) ==
  /\ \A f \in {"scheme", "user", "host", "port", "emptyHostValid", "path", "isAbsolute"} : u[f] = v[f]
  /\ QueryStr(u) = QueryStr(v) /\ FragmentStr(u) = FragmentStr(v)
-----------------------------------------------------------------------------
UriInit == uri = Cleared /\ edits = 0

ParseInto(s) == uri' = Parse(uri, s).uri
Edit ==
  \/ \E part \in Parts : uri' \in {PushBack(uri, part), PushFront(uri, part),
                                   [uri EXCEPT !.query = Append(@, <<part, part>>)]}
  \/ \E absolute \in BOOLEAN : uri' = [uri EXCEPT !.isAbsolute = absolute]
  \/ uri' = Clear(uri)
\* The copy is made in a URI that may have had a trailing slash.
Assign == \E slash \in BOOLEAN : uri' = [uri EXCEPT !.trailingSlash = slash]

UriNext == /\ edits < MaxEdits /\ edits' = edits + 1
           /\ \/ \E s \in IF edits = 0 THEN Spellings ELSE Reparsed : ParseInto(s)
              \/ Edit \/ Assign
UriSpec == UriInit /\ [][UriNext]_uriVars
-----------------------------------------------------------------------------
\* A valid text is parsed, but for a drive that is no path and spaces behind it.
Sound(s) == Trimmed(s) = s /\ ~(Scan(s, FALSE).present /\ ~Scan(s, TRUE).present)

\* What Str has no words for: a user or a port without a host, an address in
\* brackets that has taken some of its port along, a relative path behind a
\* host, the empty part that is left of a slash pushed back, and a trailing
\* slash without a path.
Sayable(u) ==
  /\ u.host = << >> => u.user = << >> /\ u.port = << >>
  /\ \A i \in DOMAIN u.host : u.host[i] = "]" => i = Len(u.host)
  /\ AuthorityStr(u) # << >> /\ u.path # << >> => u.isAbsolute
  /\ << >> \notin ToSet(u.path) /\ (u.path = << >> => ~u.trailingSlash)

\* What a URI holds, however it got there, is what is read from the text it is
\* written as: a pushed part is one part whatever is in it, and nothing moves
\* from one component to the next.  And a text that is valid is parsed.
UrisReadBack ==
  /\ edits = 0 => \A t \in Spellings : Valid(t) /\ Sound(t) => Parse(Cleared, t).ok
  /\ \A s \in {Str(uri)} : Valid(s) /\ Sound(s) /\ Sayable(uri) =>
       \E again \in {Parse(Cleared, s)} : again.ok /\ Equal(again.uri, uri)
=============================================================================
