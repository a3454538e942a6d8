--------------------------- MODULE ClientPolicyProofs ---------------------------
(***************************************************************************)
(* What the client lets through and shows, for any rules, URLs, endpoints, *)
(* profiles and versions: a destination on its way through the two local   *)
(* proxies, the capsule and its adapter in any order of calls, the         *)
(* sessions of the GUI thread with the capsules they own, and the releases *)
(* that are installed.                                                     *)
(***************************************************************************)
EXTENDS ConnectPath, BrowserHost, ApplicationSessions, ReleaseUpdate,
        WellFoundedInduction, SequenceTheorems, TLAPS

---------------------------------------------------------------------------
(* Numbers.                                                                *)

\* Some numbers have a least one, so that what is wrong for a number is first wrong
\* for one.
LEMMA LeastNatural ==
  ASSUME NEW S \in SUBSET Nat, S # {}
  PROVE  \E m \in S : \A n \in S : m <= n
<1> DEFINE R == OpToRel(<, Nat)
<1>1. IsWellFoundedOn(R, Nat)
  BY NatLessThanWellFounded
<1>2. \A x, y \in Nat : x < y => <<x, y>> \in R
  BY DEF OpToRel
<1> HIDE DEF R
<1>3. PICK m \in S : \A n \in S : <<n, m>> \notin R
  BY <1>1, WFMin
<1>4. ASSUME NEW n \in S PROVE m <= n
  <2>1. m \in Nat /\ n \in Nat OBVIOUS
  <2>2. ~(n < m) BY <1>2, <1>3, <2>1
  <2> QED BY <2>1, <2>2
<1> QED
  BY <1>4

\* The least of some numbers.
LEMMA MinProperties ==
  ASSUME NEW S \in SUBSET Nat, S # {}
  PROVE  Min(S) \in S /\ \A n \in S : Min(S) <= n
<1>1. \E m \in S : \A n \in S : m <= n
  BY LeastNatural
<1> QED
  BY <1>1 DEF Min

\* The greatest number of a prefix of the numbers.
LEMMA MaxOfPrefix ==
  ASSUME NEW n \in Nat, NEW s \in SUBSET (1..n + 1), n + 1 \in s
  PROVE  Max(s) = n + 1
<1>1. \A y \in s : n + 1 >= y
  OBVIOUS
<1>2. \A x \in s : (\A y \in s : x >= y) => x = n + 1
  OBVIOUS
<1> QED
  BY <1>1, <1>2 DEF Max

\* A prefix of the numbers, and the one before it.
LEMMA PrefixProperties ==
  ASSUME NEW n \in Nat
  PROVE  /\ 1..(n + 1) # {} /\ n + 1 \in 1..(n + 1) /\ (1..(n + 1)) \ {n + 1} = 1..n
         /\ \A m \in Nat : n + 1 <= m => 1..(n + 1) \in SUBSET (1..m)
<1>1. \A x \in 1..(n + 1) : x # n + 1 => x \in 1..n
  OBVIOUS
<1>2. \A x \in 1..n : x \in 1..(n + 1) /\ x # n + 1
  OBVIOUS
<1>3. (1..(n + 1)) \ {n + 1} = 1..n
  BY <1>1, <1>2
<1>4. \A m \in Nat : n + 1 <= m => \A x \in 1..(n + 1) : x \in 1..m
  OBVIOUS
<1> QED
  BY <1>3, <1>4

---------------------------------------------------------------------------
(* Names and URLs.                                                         *)

\* Strings; the provers know of a string only that it is not another one.
Token == STRING \cup {"corp", "."}

\* The pages that URLs become.
PageRecord ==
  [text : STRING, scheme : STRING, userinfo : BOOLEAN, bracket : {"none", "closed", "open"},
   host : Seq(Token), port : Nat, traversal : BOOLEAN]

\* A URL is a page's, as far as its parts go.
LEMMA UrlIsPage == UrlRecord \subseteq PageRecord
BY SeqMonotonic DEF UrlRecord, PageRecord, Token

\* A name in lower case is a name as long, and one already in lower case.
LEMMA LowerCaseProperties ==
  ASSUME NEW name \in Seq(Token)
  PROVE  /\ LowerCase(name) \in Seq(Token)
         /\ Len(LowerCase(name)) = Len(name)
         /\ LowerCase(LowerCase(name)) = LowerCase(name)
<1> DEFINE low == LowerCase(name)
<1>1. /\ Len(name) \in Nat /\ DOMAIN name = 1..Len(name)
      /\ \A i \in 1..Len(name) : name[i] \in Token
  BY LenProperties, ElementOfSeq
<1>2. low = [i \in 1..Len(name) |-> IF name[i] = "Corp" THEN "corp" ELSE name[i]]
  BY <1>1 DEF LowerCase
<1>3. low \in [1..Len(name) -> Token]
  <2>1. "corp" \in Token
    BY DEF Token
  <2>2. \A i \in 1..Len(name) : low[i] \in Token
    BY <1>1, <1>2, <2>1
  <2> QED
    BY <1>2, <2>2
<1>4. low \in Seq(Token)
  BY <1>1, <1>3, SeqDef
<1>5. Len(low) = Len(name)
  BY <1>1, <1>3, <1>4, LenProperties
<1>6. \A i \in 1..Len(name) : low[i] # "Corp"
  BY <1>2
<1>7. LowerCase(low) = low
  BY <1>2, <1>6 DEF LowerCase
<1> QED
  BY <1>4, <1>5, <1>7

\* A name without its trailing dots ends in something else, and is left alone.
LEMMA WithoutTrailingDotsProperties ==
  ASSUME NEW name \in Seq(Token)
  PROVE  /\ WithoutTrailingDots(name) \in Seq(Token)
         /\ LET plain == WithoutTrailingDots(name) IN plain # <<>> => plain[Len(plain)] # "."
         /\ name # <<>> /\ name[Len(name)] # "." => WithoutTrailingDots(name) = name
<1> DEFINE n == Len(name)
           Cuts == {i \in 0..n : \A j \in (i + 1)..n : name[j] = "."}
           m == Min(Cuts)
<1>1. n \in Nat
  BY LenProperties
<1>2. /\ m \in 0..n /\ \A j \in (m + 1)..n : name[j] = "."
      /\ \A i \in Cuts : m <= i
  <2>1. Cuts \in SUBSET Nat /\ n \in Cuts
    BY <1>1
  <2> HIDE DEF Cuts
  <2>2. m \in Cuts /\ \A i \in Cuts : m <= i
    BY <2>1, MinProperties
  <2> QED
    BY <2>2 DEF Cuts
<1>3. WithoutTrailingDots(name) = SubSeq(name, 1, m)
  BY DEF WithoutTrailingDots
<1> HIDE DEF m
<1>4. /\ SubSeq(name, 1, m) \in Seq(Token) /\ Len(SubSeq(name, 1, m)) = m
      /\ \A i \in 1..m : SubSeq(name, 1, m)[i] = name[i]
  <2>1. \A i \in 1..m : name[i] \in Token
    BY <1>1, <1>2, ElementOfSeq
  <2> QED
    BY <1>1, <1>2, <2>1, SubSeqProperties
<1>5. ASSUME m # 0 PROVE name[m] # "."
  <2> SUFFICES ASSUME name[m] = "." PROVE FALSE
    OBVIOUS
  <2>1. m - 1 \in 0..n /\ \A j \in ((m - 1) + 1)..n : j = m \/ j \in (m + 1)..n
    BY <1>1, <1>2, <1>5
  <2>2. m - 1 \in Cuts
    BY <1>2, <2>1
  <2> HIDE DEF Cuts
  <2>3. m <= m - 1 /\ m \in Nat
    BY <1>1, <1>2, <2>2
  <2> QED
    BY <2>3
<1>6. ASSUME name # <<>>, name[n] # "." PROVE SubSeq(name, 1, m) = name
  <2>1. n \in 1..n
    BY <1>1, <1>6, EmptySeq
  <2>2. m = n
    BY <1>1, <1>2, <1>6, <2>1
  <2> QED
    BY <2>2, SubSeqFull
<1>7. SubSeq(name, 1, m) # <<>> => m # 0
  BY <1>1, <1>2, <1>4, EmptySeq
<1>8. SubSeq(name, 1, m) # <<>> => SubSeq(name, 1, m)[Len(SubSeq(name, 1, m))] # "."
  BY <1>1, <1>2, <1>4, <1>5, <1>7
<1> QED
  BY <1>3, <1>4, <1>6, <1>8

\* A normalized name is a name that normalizing leaves alone.
LEMMA NormalizeProperties ==
  ASSUME NEW name \in Seq(Token), NormalizeTargetDomain(name) # NoName
  PROVE  /\ NormalizeTargetDomain(name) \in Seq(Token)
         /\ NormalizeTargetDomain(NormalizeTargetDomain(name)) = NormalizeTargetDomain(name)
<1> DEFINE cut == WithoutTrailingDots(name)
           plain == LowerCase(cut)
           IsBad(p) == \/ p = <<>>
                       \/ \E i \in DOMAIN p : p[i] \in {"*", " ", "-", "::1", "long"}
                       \/ p[1] = "."
                       \/ \E i \in 2..Len(p) : p[i] = "." /\ p[i - 1] = "."
<1>1. /\ cut \in Seq(Token)
      /\ cut # <<>> => cut[Len(cut)] # "."
  BY WithoutTrailingDotsProperties
<1>2. \A n : NormalizeTargetDomain(n)
               = IF IsBad(LowerCase(WithoutTrailingDots(n))) THEN NoName
                 ELSE LowerCase(WithoutTrailingDots(n))
  BY DEF NormalizeTargetDomain
<1> HIDE DEF IsBad, cut
<1>3. /\ plain \in Seq(Token) /\ Len(plain) = Len(cut) /\ LowerCase(plain) = plain
  BY <1>1, LowerCaseProperties
<1>4. NormalizeTargetDomain(name) = plain /\ ~IsBad(plain)
  BY <1>2 DEF cut
<1>5. plain # <<>>
  BY <1>4 DEF IsBad
<1>6. Len(plain) \in Nat \ {0} /\ Len(plain) \in 1..Len(plain) /\ cut # <<>>
  BY <1>1, <1>3, <1>5, EmptySeq
<1>7. plain[Len(plain)] # "."
  <2>1. DOMAIN cut = 1..Len(cut)
    BY <1>1, LenProperties
  <2>2. plain[Len(plain)] = IF cut[Len(cut)] = "Corp" THEN "corp" ELSE cut[Len(cut)]
    BY <1>3, <1>6, <2>1 DEF LowerCase
  <2> QED
    BY <1>1, <1>6, <2>2
<1> HIDE DEF plain
<1>8. WithoutTrailingDots(plain) = plain
  BY <1>3, <1>5, <1>7, WithoutTrailingDotsProperties
<1>9. NormalizeTargetDomain(plain) = plain
  BY <1>2, <1>3, <1>4, <1>8
<1> QED
  BY <1>3, <1>4, <1>9

\* What the policy makes of a URL is a URL that it leaves alone.
LEMMA ValidatedUrlProperties ==
  ASSUME NEW url \in PageRecord
  PROVE  /\ ValidatedUrl(url) \in PageRecord
         /\ ValidatedUrl(ValidatedUrl(url)) = ValidatedUrl(url)
<1> DEFINE page == ValidatedUrl(url)
<1>1. url.host \in Seq(Token)
  BY DEF PageRecord
<1>2. /\ LowerCase(url.host) \in Seq(Token)
      /\ LowerCase(LowerCase(url.host)) = LowerCase(url.host)
  BY <1>1, LowerCaseProperties
<1>3. page \in PageRecord /\ page.host = LowerCase(url.host) /\ page.bracket = "none"
  BY <1>2 DEF ValidatedUrl, PageRecord
<1>4. ValidatedUrl(page) = page
  <2>1. ValidatedUrl(page) = [page EXCEPT !.host = page.host, !.bracket = page.bracket]
    BY <1>2, <1>3 DEF ValidatedUrl
  <2>2. \A u \in PageRecord : [u EXCEPT !.host = u.host, !.bracket = u.bracket] = u
    BY DEF PageRecord
  <2> QED
    BY <1>3, <2>1, <2>2
<1> QED
  BY <1>3, <1>4

\* The policy admits the page that it makes of a URL it admits, unless the page's host
\* is an address with colons.
LEMMA ValidatedUrlAllowed ==
  ASSUME NEW url \in PageRecord, NEW rules, UrlAllowed(rules, url),
         ValidatedUrl(url).host # IPv6
  PROVE  UrlAllowed(rules, ValidatedUrl(url))
<1> DEFINE page == ValidatedUrl(url)
<1>1. url.host \in Seq(Token)
  BY DEF PageRecord
<1>2. /\ page.text = url.text /\ page.scheme = url.scheme /\ page.userinfo = url.userinfo
      /\ page.port = url.port /\ page.traversal = url.traversal
      /\ page.host = LowerCase(url.host) /\ page.bracket = "none"
  BY DEF ValidatedUrl, PageRecord
<1>3. /\ Len(LowerCase(url.host)) = Len(url.host)
      /\ LowerCase(LowerCase(url.host)) = LowerCase(url.host)
  BY <1>1, LowerCaseProperties
<1>4. NavigationAdmits(rules, page.host)
  BY <1>2, <1>3 DEF UrlAllowed, NavigationAdmits
<1>5. page.host # <<>>
  BY <1>1, <1>2, <1>3, EmptySeq DEF UrlAllowed
<1> QED
  BY <1>2, <1>4, <1>5 DEF UrlAllowed

---------------------------------------------------------------------------
(* Labels: a fold over a name is a table of what each of its prefixes      *)
(* folds to, and a prefix has the labels that it has in any longer name.   *)

\* One token more, after the labels that are done.
AddToken(done, token) ==
  IF token = "." THEN Append(done, <<>>)
  ELSE [done EXCEPT ![Len(done)] = Append(@, token)]

\* The prefixes of a name, each with its labels: what FoldLeft chooses.
IsLabelTable(g, name, n) ==
  g = [s \in SUBSET (1..n) |->
         IF s = {} THEN << <<>> >> ELSE AddToken(g[s \ {Max(s)}], name[Max(s)])]

\* A table for a prefix makes one for the next.
LEMMA LabelTableGrows ==
  ASSUME NEW name, NEW n \in Nat, NEW g, IsLabelTable(g, name, n)
  PROVE  \E h : IsLabelTable(h, name, n + 1)
<1> DEFINE h == [s \in SUBSET (1..n + 1) |->
                   IF n + 1 \in s THEN AddToken(g[s \ {n + 1}], name[n + 1]) ELSE g[s]]
<1>1. \A s \in SUBSET (1..n + 1) :
        h[s] = IF s = {} THEN << <<>> >> ELSE AddToken(h[s \ {Max(s)}], name[Max(s)])
  <2> SUFFICES ASSUME NEW s \in SUBSET (1..n + 1)
               PROVE  h[s] = IF s = {} THEN << <<>> >>
                             ELSE AddToken(h[s \ {Max(s)}], name[Max(s)])
    OBVIOUS
  <2>1. CASE n + 1 \in s
    <3>1. Max(s) = n + 1
      BY <2>1, MaxOfPrefix
    <3>2. s \ {n + 1} \in SUBSET (1..n + 1) /\ n + 1 \notin s \ {n + 1}
      OBVIOUS
    <3>3. h[s \ {n + 1}] = g[s \ {n + 1}]
      BY <3>2
    <3>4. h[s] = AddToken(g[s \ {n + 1}], name[n + 1])
      BY <2>1
    <3> HIDE DEF h
    <3> QED
      BY <2>1, <3>1, <3>3, <3>4
  <2>2. CASE n + 1 \notin s
    <3>1. s \in SUBSET (1..n) /\ s \ {Max(s)} \in SUBSET (1..n)
      <4>1. \A x \in s : x \in 1..n
        BY <2>2
      <4>2. \A x : s \ {x} \subseteq s
        OBVIOUS
      <4> QED
        BY <4>1, <4>2
    <3>2. /\ s \ {Max(s)} \subseteq s
          /\ s \ {Max(s)} \in SUBSET (1..n + 1) /\ n + 1 \notin s \ {Max(s)}
      <4>1. \A x : /\ s \ {x} \subseteq s
                   /\ s \ {x} \in SUBSET (1..n + 1) /\ n + 1 \notin s \ {x}
        BY <2>2
      <4> QED
        BY <4>1
    <3>3. h[s] = g[s] /\ h[s \ {Max(s)}] = g[s \ {Max(s)}]
      BY <2>2, <3>2
    <3>4. g[s] = IF s = {} THEN << <<>> >> ELSE AddToken(g[s \ {Max(s)}], name[Max(s)])
      BY <3>1 DEF IsLabelTable
    <3> HIDE DEF h
    <3> QED
      BY <3>3, <3>4
  <2> QED
    BY <2>1, <2>2
<1>2. h = [s \in SUBSET (1..n + 1) |-> h[s]]
  OBVIOUS
<1> HIDE DEF h
<1>3. IsLabelTable(h, name, n + 1)
  BY <1>1, <1>2 DEF IsLabelTable
<1> QED
  BY <1>3

\* There is a table for every prefix.
LEMMA LabelTableExists ==
  ASSUME NEW name, NEW n \in Nat
  PROVE  \E g : IsLabelTable(g, name, n)
<1> DEFINE Missing == {k \in Nat : ~\E g : IsLabelTable(g, name, k)}
<1>1. ASSUME Missing # {} PROVE FALSE
  <2>1. PICK m \in Missing : \A k \in Missing : m <= k
    BY <1>1, LeastNatural
  <2>2. m # 0
    <3> DEFINE g == [s \in SUBSET (1..0) |-> << <<>> >>]
    <3>1. IsLabelTable(g, name, 0)
      BY DEF IsLabelTable
    <3> QED
      BY <3>1, <2>1
  <2>3. m - 1 \in Nat /\ m - 1 \notin Missing /\ (m - 1) + 1 = m
    BY <2>1, <2>2
  <2>4. PICK g : IsLabelTable(g, name, m - 1)
    BY <2>3
  <2>5. \E h : IsLabelTable(h, name, m)
    BY <2>3, <2>4, LabelTableGrows
  <2> QED
    BY <2>1, <2>5
<1> QED
  BY <1>1

\* The labels of a name are what a table says of the whole name.
LEMMA LabelsTable ==
  ASSUME NEW name \in Seq(Token)
  PROVE  \E g : IsLabelTable(g, name, Len(name)) /\ Labels(name) = g[1..Len(name)]
<1>1. DOMAIN name = 1..Len(name) /\ Len(name) \in Nat
  BY LenProperties
<1> DEFINE g == CHOOSE g : IsLabelTable(g, name, Len(name))
<1>2. IsLabelTable(g, name, Len(name))
  BY <1>1, LabelTableExists
<1>3. Labels(name) = g[DOMAIN name]
  BY <1>1 DEF Labels, FoldLeft, MapThenFoldSet, IsLabelTable, AddToken
<1> QED
  BY <1>1, <1>2, <1>3

\* Tables of a name, and of a name with a token more, say the same of it.
LEMMA LabelTablesAgree ==
  ASSUME NEW a, NEW b, NEW n \in Nat, NEW g, NEW h,
         IsLabelTable(g, a, n), IsLabelTable(h, b, n + 1), \A i \in 1..n : a[i] = b[i]
  PROVE  g[1..n] = h[1..n]
<1> DEFINE Wrong == {j \in Nat : j <= n /\ g[1..j] # h[1..j]}
<1>1. ASSUME Wrong # {} PROVE FALSE
  <2>1. PICK j \in Wrong : \A i \in Wrong : j <= i
    BY <1>1, LeastNatural
  <2>2. g[{}] = << <<>> >> /\ h[{}] = << <<>> >> /\ 1..0 = {}
    BY DEF IsLabelTable
  <2>3. j # 0
    BY <2>1, <2>2
  <2>4. j - 1 \in Nat /\ (j - 1) + 1 = j /\ j <= n /\ g[1..(j - 1)] = h[1..(j - 1)]
    BY <2>1, <2>3
  <2>5. /\ 1..j \in SUBSET (1..n) /\ 1..j \in SUBSET (1..n + 1) /\ j \in 1..j
        /\ (1..j) \ {j} = 1..(j - 1) /\ 1..j # {} /\ a[j] = b[j]
    <3>1. j <= n /\ j <= n + 1 /\ n + 1 \in Nat /\ j \in 1..n
      BY <2>3, <2>4
    <3> QED
      <4> DEFINE i == j - 1
      <4>1. i \in Nat /\ i + 1 = j
        BY <2>4
      <4> HIDE DEF i
      <4>2. /\ 1..(i + 1) # {} /\ i + 1 \in 1..(i + 1) /\ (1..(i + 1)) \ {i + 1} = 1..i
            /\ \A l \in Nat : i + 1 <= l => 1..(i + 1) \in SUBSET (1..l)
        BY <4>1, PrefixProperties
      <4> QED
        BY <3>1, <4>1, <4>2 DEF i
  <2>6. Max(1..j) = j
    BY <2>4, <2>5, MaxOfPrefix
  <2>7. /\ g[1..j] = AddToken(g[(1..j) \ {Max(1..j)}], a[Max(1..j)])
        /\ h[1..j] = AddToken(h[(1..j) \ {Max(1..j)}], b[Max(1..j)])
    BY <2>5 DEF IsLabelTable
  <2> QED
    BY <2>1, <2>4, <2>5, <2>6, <2>7
<1> QED
  BY <1>1

\* The empty name has one label, which is empty.
LEMMA LabelsOfNothing == Labels(<<>>) = << <<>> >>
<1>1. <<>> \in Seq(Token) /\ Len(<<>>) = 0 /\ 1..0 = {}
  OBVIOUS
<1>2. PICK g : IsLabelTable(g, <<>>, 0) /\ Labels(<<>>) = g[1..0]
  BY <1>1, LabelsTable
<1> QED
  BY <1>1, <1>2 DEF IsLabelTable

\* One token more is added to the labels before it.
LEMMA LabelsOfOneMore ==
  ASSUME NEW name \in Seq(Token), NEW token \in Token
  PROVE  Labels(Append(name, token)) = AddToken(Labels(name), token)
<1> DEFINE more == Append(name, token)
           n == Len(name)
<1>1. /\ more \in Seq(Token) /\ n \in Nat /\ Len(more) = n + 1 /\ more[n + 1] = token
      /\ \A i \in 1..n : more[i] = name[i]
  BY AppendProperties, LenProperties
<1>2. PICK g : IsLabelTable(g, name, n) /\ Labels(name) = g[1..n]
  BY LabelsTable
<1>3. PICK h : IsLabelTable(h, more, n + 1) /\ Labels(more) = h[1..(n + 1)]
  BY <1>1, LabelsTable
<1> HIDE DEF more, n
<1>4. g[1..n] = h[1..n]
  <2>1. \A i \in 1..n : name[i] = more[i]
    BY <1>1
  <2> QED
    BY <1>1, <1>2, <1>3, <2>1, LabelTablesAgree
<1>5. /\ 1..(n + 1) \in SUBSET (1..(n + 1)) /\ 1..(n + 1) # {} /\ n + 1 \in 1..(n + 1)
      /\ (1..(n + 1)) \ {n + 1} = 1..n
  BY <1>1, PrefixProperties
<1>6. Max(1..(n + 1)) = n + 1
  BY <1>1, <1>5, MaxOfPrefix
<1>7. h[1..(n + 1)] = AddToken(h[(1..(n + 1)) \ {Max(1..(n + 1))}], more[Max(1..(n + 1))])
  BY <1>3, <1>5 DEF IsLabelTable
<1>8. Labels(more) = AddToken(Labels(name), token)
  BY <1>1, <1>2, <1>3, <1>4, <1>5, <1>6, <1>7
<1> QED
  BY <1>8 DEF more

\* What names are labelled with.
LabelLists == Seq(Seq(Token))

\* Labels stay labels, of which there is always one.
LEMMA AddTokenProperties ==
  ASSUME NEW done \in LabelLists, done # <<>>, NEW token \in Token
  PROVE  AddToken(done, token) \in LabelLists /\ AddToken(done, token) # <<>>
<1>1. CASE token = "."
  <2>1. <<>> \in Seq(Token)
    OBVIOUS
  <2> QED
    BY <1>1, <2>1, AppendProperties DEF AddToken, LabelLists
<1>2. CASE token # "."
  <2> DEFINE n == Len(done)
             last == Append(done[n], token)
  <2>1. n \in Nat \ {0} /\ n \in 1..n
    BY EmptySeq, LenProperties DEF LabelLists
  <2>2. done[n] \in Seq(Token)
    BY <2>1, ElementOfSeq DEF LabelLists
  <2>3. last \in Seq(Token)
    BY <2>2, AppendProperties
  <2> HIDE DEF last
  <2>4. /\ [done EXCEPT ![n] = last] \in Seq(Seq(Token))
        /\ Len([done EXCEPT ![n] = last]) = n
    BY <2>1, <2>3, ExceptSeq DEF LabelLists
  <2>5. AddToken(done, token) = [done EXCEPT ![n] = last]
    BY <1>2 DEF AddToken, last
  <2>6. Len(<<>>) = 0
    OBVIOUS
  <2> QED
    BY <2>1, <2>4, <2>5, <2>6 DEF LabelLists
<1> QED
  BY <1>1, <1>2

\* LabelLists that are longer by one token are labelled by labelling the shorter ones.
LEMMA LabelsType ==
  ASSUME NEW name \in Seq(Token)
  PROVE  Labels(name) \in LabelLists /\ Labels(name) # <<>>
<1> DEFINE Good(n) == Labels(n) \in LabelLists /\ Labels(n) # <<>>
           Wrong == {Len(n) : n \in {m \in Seq(Token) : ~Good(m)}}
<1>1. ASSUME Wrong # {} PROVE FALSE
  <2>1. Wrong \in SUBSET Nat
    BY LenProperties
  <2>2. PICK k \in Wrong : \A i \in Wrong : k <= i
    BY <1>1, <2>1, LeastNatural
  <2>3. PICK n \in Seq(Token) : Len(n) = k /\ ~Good(n)
    BY <2>2
  <2>4. n # <<>>
    <3>1. << <<>> >> \in LabelLists /\ << <<>> >> # <<>>
      BY DEF LabelLists
    <3> QED
      BY <2>3, <3>1, LabelsOfNothing
  <2>5. PICK f \in Seq(Token), t \in Token : n = Append(f, t)
    BY <2>4, SequenceEmptyOrAppend
  <2>6. Len(f) \in Nat /\ Len(n) = Len(f) + 1
    BY <2>5, AppendProperties, LenProperties
  <2>7. Good(f)
    <3> SUFFICES ASSUME ~Good(f) PROVE FALSE
      OBVIOUS
    <3>1. Len(f) \in Wrong
      OBVIOUS
    <3> QED
      BY <3>1, <2>2, <2>3, <2>6
  <2>8. Labels(n) = AddToken(Labels(f), t)
    BY <2>5, LabelsOfOneMore
  <2> QED
    BY <2>3, <2>7, <2>8, AddTokenProperties
<1> QED
  BY <1>1

\* A token more changes the last label, or begins one.
LEMMA AddTokenAfter ==
  ASSUME NEW before \in LabelLists, NEW done \in LabelLists, done # <<>>, NEW token \in Token
  PROVE  AddToken(before \o done, token) = before \o AddToken(done, token)
<1>1. /\ before \o done \in LabelLists
      /\ Len(before) \in Nat /\ Len(done) \in Nat \ {0}
      /\ Len(before \o done) = Len(before) + Len(done)
      /\ \A i \in 1..Len(before) + Len(done) :
           (before \o done)[i] = IF i <= Len(before) THEN before[i] ELSE done[i - Len(before)]
  BY ConcatProperties, LenProperties, EmptySeq DEF LabelLists
<1>2. before \o done # <<>>
  BY <1>1, EmptySeq DEF LabelLists
<1>3. /\ AddToken(before \o done, token) \in LabelLists /\ AddToken(done, token) \in LabelLists
  BY <1>1, <1>2, AddTokenProperties
<1>4. CASE token = "."
  <2>1. <<>> \in Seq(Token)
    BY EmptySeq
  <2>2. /\ Append(done, <<>>) = done \o << <<>> >>
        /\ Append(before \o done, <<>>) = (before \o done) \o << <<>> >>
        /\ << <<>> >> \in LabelLists
    BY <1>1, <2>1, AppendIsConcat DEF LabelLists
  <2>3. (before \o done) \o << <<>> >> = before \o (done \o << <<>> >>)
    BY <2>2, ConcatAssociative DEF LabelLists
  <2> QED
    BY <1>4, <2>2, <2>3 DEF AddToken
<1>5. CASE token # "."
  <2> DEFINE b == Len(before)
             d == Len(done)
             all == before \o done
             last == Append(done[d], token)
  <2>1. all[b + d] = done[d] /\ d \in 1..d /\ b + d \in 1..(b + d)
    BY <1>1
  <2>2. last \in Seq(Token)
    BY <2>1, ElementOfSeq, AppendProperties DEF LabelLists
  <2>3. /\ AddToken(all, token) = [all EXCEPT ![b + d] = last]
        /\ AddToken(done, token) = [done EXCEPT ![d] = last]
    BY <1>1, <1>5, <2>1 DEF AddToken
  <2>0. /\ all \in Seq(Seq(Token)) /\ Len(all) = b + d /\ b + d \in 1..Len(all)
        /\ b \in Nat /\ d \in Nat
    BY <1>1, <2>1 DEF LabelLists
  <2> HIDE DEF last, all
  <2>4. /\ [all EXCEPT ![b + d] = last] \in Seq(Seq(Token))
        /\ Len([all EXCEPT ![b + d] = last]) = b + d
        /\ \A i \in 1..(b + d) :
             [all EXCEPT ![b + d] = last][i] = IF i = b + d THEN last ELSE all[i]
    BY <2>0, <2>2, ExceptSeq
  <2>5. /\ [done EXCEPT ![d] = last] \in Seq(Seq(Token))
        /\ Len([done EXCEPT ![d] = last]) = d
        /\ \A i \in 1..d : [done EXCEPT ![d] = last][i] = IF i = d THEN last ELSE done[i]
    BY <1>1, <2>1, <2>2, ExceptSeq DEF LabelLists
  <2> DEFINE one == [all EXCEPT ![b + d] = last]
             two == [done EXCEPT ![d] = last]
  <2> HIDE DEF one, two
  <2>6. /\ before \o two \in Seq(Seq(Token)) /\ Len(before \o two) = b + d
        /\ \A i \in 1..(b + d) : (before \o two)[i] = IF i <= b THEN before[i] ELSE two[i - b]
    BY <2>5, ConcatProperties DEF LabelLists, two
  <2>7. \A i \in 1..(b + d) : one[i] = (before \o two)[i]
    <3> SUFFICES ASSUME NEW i \in 1..(b + d) PROVE one[i] = (before \o two)[i]
      OBVIOUS
    <3>1. CASE i <= b
      BY <1>1, <2>4, <2>6, <3>1 DEF one, all
    <3>2. CASE i > b
      <4>1. i - b \in 1..d /\ (i - b = d <=> i = b + d)
        BY <1>1, <3>2
      <4> QED
        BY <1>1, <2>4, <2>5, <2>6, <3>2, <4>1 DEF one, two, all
    <3> QED
      <4>1. i <= b \/ i > b
        BY <2>0
      <4> QED
        BY <3>1, <3>2, <4>1
  <2>8. one = before \o two
    BY <2>4, <2>6, <2>7, SeqEqual DEF one
  <2> QED
    BY <2>3, <2>8 DEF one, two, all
<1> QED
  BY <1>4, <1>5

\* Appending to what comes after.
LEMMA AppendAfter ==
  ASSUME NEW S, NEW s \in Seq(S), NEW t \in Seq(S), NEW e \in S
  PROVE  s \o Append(t, e) = Append(s \o t, e)
<1>1. <<e>> \in Seq(S)
  OBVIOUS
<1>2. s \o t \in Seq(S)
  BY ConcatProperties
<1>3. Append(t, e) = t \o <<e>> /\ Append(s \o t, e) = (s \o t) \o <<e>>
  BY <1>2, AppendIsConcat
<1>4. (s \o t) \o <<e>> = s \o (t \o <<e>>)
  BY <1>1, ConcatAssociative
<1> QED
  BY <1>3, <1>4

\* What stands on the two sides of a dot is labelled by itself.
LEMMA LabelsAcrossDot ==
  ASSUME NEW p \in Seq(Token), NEW name \in Seq(Token)
  PROVE  Labels(Append(p, ".") \o name) = Labels(p) \o Labels(name)
<1> DEFINE q == Append(p, ".")
           Good(n) == Labels(q \o n) = Labels(p) \o Labels(n)
           Wrong == {Len(n) : n \in {m \in Seq(Token) : ~Good(m)}}
<1>0. "." \in Token
  BY DEF Token
<1>q. q \in Seq(Token)
  BY <1>0, AppendProperties
<1>p. Labels(p) \in LabelLists /\ Labels(p) # <<>>
  BY LabelsType
<1>1. ASSUME Wrong # {} PROVE FALSE
  <2>1. Wrong \in SUBSET Nat
    BY LenProperties
  <2>2. PICK k \in Wrong : \A i \in Wrong : k <= i
    BY <1>1, <2>1, LeastNatural
  <2>3. PICK n \in Seq(Token) : Len(n) = k /\ ~Good(n)
    BY <2>2
  <2>4. n # <<>>
    <3>1. Labels(q) = Append(Labels(p), <<>>)
      BY <1>0, LabelsOfOneMore DEF AddToken
    <3>2. Append(Labels(p), <<>>) = Labels(p) \o << <<>> >>
      BY <1>p, EmptySeq, AppendIsConcat DEF LabelLists
    <3>3. q \o <<>> = q
      BY <1>q, ConcatEmptySeq
    <3> HIDE DEF q
    <3> QED
      BY <2>3, <3>1, <3>2, <3>3, LabelsOfNothing
  <2>5. PICK f \in Seq(Token), t \in Token : n = Append(f, t)
    BY <2>4, SequenceEmptyOrAppend
  <2>6. Len(f) \in Nat /\ Len(n) = Len(f) + 1
    BY <2>5, AppendProperties, LenProperties
  <2>7. Good(f)
    <3> SUFFICES ASSUME ~Good(f) PROVE FALSE
      OBVIOUS
    <3>1. Len(f) \in Wrong
      OBVIOUS
    <3> HIDE DEF Wrong
    <3> QED
      BY <3>1, <2>2, <2>3, <2>6
  <2> HIDE DEF q
  <2>8. q \o n = Append(q \o f, t) /\ q \o f \in Seq(Token)
    <3>1. q \o f \in Seq(Token)
      BY <1>q, ConcatProperties
    <3>2. q \o Append(f, t) = Append(q \o f, t)
      <4> HIDE DEF Wrong, Good
      <4> QED
        BY <1>q, AppendAfter
    <3> QED
      BY <2>5, <3>1, <3>2
  <2>9. /\ Labels(q \o n) = AddToken(Labels(q \o f), t)
        /\ Labels(n) = AddToken(Labels(f), t)
    BY <2>5, <2>8, LabelsOfOneMore
  <2>10. Labels(f) \in LabelLists /\ Labels(f) # <<>>
    BY LabelsType
  <2>11. AddToken(Labels(p) \o Labels(f), t) = Labels(p) \o AddToken(Labels(f), t)
    BY <1>p, <2>10, AddTokenAfter
  <2> QED
    BY <2>3, <2>7, <2>9, <2>11
<1> QED
  BY <1>1

\* A suffix, token by token.
LEMMA SuffixProperties ==
  ASSUME NEW S, NEW s \in Seq(S), NEW t \in Seq(S)
  PROVE  IsSuffix(s, t) <=>
           /\ Len(s) <= Len(t)
           /\ \A i \in 1..Len(s) : s[i] = t[Len(t) - Len(s) + i]
<1> DEFINE m == Len(s)
           n == Len(t)
           a == Reverse(s)
           b == Reverse(t)
<1>1. m \in Nat /\ n \in Nat
  BY LenProperties
<1>2. /\ a \in [1..m -> S] /\ b \in [1..n -> S]
      /\ \A i \in 1..m : a[i] = s[(m - i) + 1]
      /\ \A i \in 1..n : b[i] = t[(n - i) + 1]
  <2>1. \A i \in 1..m : s[(m - i) + 1] \in S
    <3>1. \A i \in 1..m : (m - i) + 1 \in 1..m
      BY <1>1
    <3> QED
      BY <3>1, ElementOfSeq
  <2>2. \A i \in 1..n : t[(n - i) + 1] \in S
    <3>1. \A i \in 1..n : (n - i) + 1 \in 1..n
      BY <1>1
    <3> QED
      BY <3>1, ElementOfSeq
  <2> QED
    BY <2>1, <2>2 DEF Reverse
<1>3. /\ a \in Seq(S) /\ b \in Seq(S) /\ Len(a) = m /\ Len(b) = n
  <2>1. \A f, k : k \in Nat /\ f \in [1..k -> S] => f \in Seq(S) /\ Len(f) = k
    BY SeqDef
  <2> HIDE DEF a, b
  <2> QED
    BY <1>1, <1>2, <2>1
<1> HIDE DEF a, b
<1>4. IsSuffix(s, t) <=> m <= n /\ SubSeq(a, 1, m) = SubSeq(b, 1, m)
  BY <1>3 DEF IsSuffix, IsPrefix, a, b
<1>5. ASSUME m <= n
      PROVE  SubSeq(a, 1, m) = SubSeq(b, 1, m) <=> \A i \in 1..m : a[i] = b[i]
  <2>1. /\ \A i \in 1..m : a[i] \in S
        /\ \A i \in 1..m : b[i] \in S
    <3>1. \A i \in 1..m : i \in 1..n
      BY <1>1, <1>5
    <3> QED
      BY <1>2, <3>1
  <2>2. /\ SubSeq(a, 1, m) \in Seq(S) /\ Len(SubSeq(a, 1, m)) = m
        /\ \A i \in 1..m : SubSeq(a, 1, m)[i] = a[i]
    BY <1>1, <2>1, SubSeqProperties
  <2>3. /\ SubSeq(b, 1, m) \in Seq(S) /\ Len(SubSeq(b, 1, m)) = m
        /\ \A i \in 1..m : SubSeq(b, 1, m)[i] = b[i]
    BY <1>1, <2>1, SubSeqProperties
  <2>4. (\A i \in 1..m : a[i] = b[i]) => SubSeq(a, 1, m) = SubSeq(b, 1, m)
    BY <2>2, <2>3, SeqEqual
  <2> QED
    BY <2>2, <2>3, <2>4
<1>6. ASSUME m <= n
      PROVE  (\A i \in 1..m : a[i] = b[i]) <=> \A i \in 1..m : s[i] = t[n - m + i]
  <2>1. ASSUME \A i \in 1..m : a[i] = b[i], NEW i \in 1..m PROVE s[i] = t[n - m + i]
    <3> DEFINE j == (m - i) + 1
    <3>1. j \in 1..m /\ j \in 1..n /\ (m - j) + 1 = i /\ (n - j) + 1 = n - m + i
      BY <1>1, <1>6
    <3> HIDE DEF j
    <3> QED
      BY <1>2, <2>1, <3>1
  <2>2. ASSUME \A i \in 1..m : s[i] = t[n - m + i], NEW i \in 1..m PROVE a[i] = b[i]
    <3> DEFINE j == (m - i) + 1
    <3>1. j \in 1..m /\ i \in 1..n /\ n - m + j = (n - i) + 1
      BY <1>1, <1>6
    <3> HIDE DEF j
    <3>2. a[i] = s[j] /\ b[i] = t[(n - i) + 1]
      BY <1>2, <3>1 DEF j
    <3> QED
      BY <2>2, <3>1, <3>2
  <2> QED
    BY <2>1, <2>2
<1> QED
  BY <1>4, <1>5, <1>6
---------------------------------------------------------------------------
(* From an authority to a destination that is dialed.                      *)

\* A name that a wildcard covers has the labels of its suffix at the end, and more.
LEMMA WildcardCoversLabels ==
  ASSUME NEW rule \in Seq(Token), NEW host \in Seq(Token),
         IsWildcard(rule), WildcardCovers(rule, host)
  PROVE  /\ Len(Labels(host)) > Len(Labels(SuffixOf(rule)))
         /\ IsSuffix(Labels(SuffixOf(rule)), Labels(host))
<1> DEFINE suffix == SuffixOf(rule)
           n == Len(host)
           m == Len(suffix)
           k == n - m
           p == SubSeq(host, 1, k - 1)
<1>1. suffix \in Seq(Token)
  <2>1. Len(rule) \in Nat /\ \A i \in 3..Len(rule) : i \in 1..Len(rule)
    BY LenProperties
  <2>2. \A i \in 3..Len(rule) : rule[i] \in Token
    BY <2>1, ElementOfSeq
  <2> QED
    BY <2>1, <2>2, SubSeqProperties DEF SuffixOf
<1>2. n \in Nat /\ m \in Nat
  BY <1>1, LenProperties
<1>3. /\ n > m + 1 /\ host[k] = "."
      /\ \A i \in 1..m : suffix[i] = host[n - m + i]
  BY <1>1, SuffixProperties DEF WildcardCovers
<1> HIDE DEF suffix
<1>4. k \in 1..n /\ k - 1 \in Nat /\ k + m = n
  BY <1>2, <1>3
<1> HIDE DEF k
<1>5. p \in Seq(Token) /\ Len(p) = k - 1 /\ \A i \in 1..k - 1 : p[i] = host[i]
  <2>1. \A i \in 1..k - 1 : i \in 1..n
    BY <1>2, <1>4
  <2>2. \A i \in 1..k - 1 : host[i] \in Token
    BY <2>1, ElementOfSeq
  <2> QED
    BY <1>4, <2>2, SubSeqProperties
<1> HIDE DEF p
<1> DEFINE q == Append(p, ".")
<1>6. /\ q \in Seq(Token) /\ Len(q) = k /\ q[k] = "."
      /\ \A i \in 1..k - 1 : q[i] = p[i]
  <2>1. "." \in Token
    BY DEF Token
  <2>2. (k - 1) + 1 = k
    BY <1>4
  <2> QED
    BY <1>5, <2>1, <2>2, AppendProperties
<1> HIDE DEF q
<1>7. host = q \o suffix
  <2>1. /\ q \o suffix \in Seq(Token) /\ Len(q \o suffix) = n
        /\ \A i \in 1..n : (q \o suffix)[i] = IF i <= k THEN q[i] ELSE suffix[i - k]
    <3>1. /\ q \o suffix \in Seq(Token) /\ Len(q \o suffix) = Len(q) + Len(suffix)
          /\ \A i \in 1..Len(q) + Len(suffix) :
               (q \o suffix)[i] = IF i <= Len(q) THEN q[i] ELSE suffix[i - Len(q)]
      BY <1>1, <1>6, ConcatProperties
    <3>2. Len(q) = k /\ Len(q) + Len(suffix) = n
      BY <1>4, <1>6
    <3> QED
      BY <3>1, <3>2
  <2>2. ASSUME NEW i \in 1..n PROVE host[i] = (q \o suffix)[i]
    <3>1. CASE i < k
      <4>1. i \in 1..k - 1 /\ i <= k
        BY <1>2, <1>4, <3>1
      <4> QED
        BY <1>5, <1>6, <2>1, <4>1
    <3>2. CASE i = k
      BY <1>3, <1>4, <1>6, <2>1, <3>2 DEF k
    <3>3. CASE i > k
      <4>1. i - k \in 1..m /\ k + (i - k) = i /\ ~(i <= k)
        BY <1>2, <1>4, <3>3
      <4>2. suffix[i - k] = host[k + (i - k)]
        BY <1>3, <4>1 DEF k
      <4> QED
        BY <2>1, <4>1, <4>2
    <3> QED
      <4>1. i < k \/ i = k \/ i > k
        BY <1>2, <1>4
      <4> QED
        BY <3>1, <3>2, <3>3, <4>1
  <2> QED
    BY <2>1, <2>2, SeqEqual
<1>8. Labels(host) = Labels(p) \o Labels(suffix)
  BY <1>1, <1>5, <1>7, LabelsAcrossDot DEF q
<1>9. /\ Labels(p) \in Seq(Seq(Token)) /\ Labels(suffix) \in Seq(Seq(Token))
      /\ Len(Labels(p)) \in Nat \ {0} /\ Len(Labels(suffix)) \in Nat
  BY <1>1, <1>5, LabelsType, EmptySeq, LenProperties DEF LabelLists
<1> DEFINE a == Labels(p)
           b == Labels(suffix)
<1>10. Len(b) < Len(a \o b) /\ IsSuffix(b, a \o b)
  <2> HIDE DEF a, b
  <2>1. /\ a \in Seq(Seq(Token)) /\ b \in Seq(Seq(Token))
        /\ Len(a) \in Nat \ {0} /\ Len(b) \in Nat
    BY <1>9 DEF a, b
  <2>2. /\ a \o b \in Seq(Seq(Token)) /\ Len(a \o b) = Len(a) + Len(b)
        /\ \A i \in 1..Len(a) + Len(b) :
             (a \o b)[i] = IF i <= Len(a) THEN a[i] ELSE b[i - Len(a)]
    BY <2>1, ConcatProperties
  <2>3. ASSUME NEW i \in 1..Len(b) PROVE b[i] = (a \o b)[Len(a \o b) - Len(b) + i]
    <3> DEFINE j == Len(a \o b) - Len(b) + i
    <3>1. j \in 1..Len(a) + Len(b) /\ ~(j <= Len(a)) /\ j - Len(a) = i
      BY <2>1, <2>2
    <3> HIDE DEF j
    <3>2. (a \o b)[j] = b[i]
      BY <2>2, <3>1
    <3> QED
      BY <3>2 DEF j
  <2>4. Len(b) < Len(a \o b) /\ Len(b) <= Len(a \o b)
    BY <2>1, <2>2
  <2> QED
    BY <2>1, <2>2, <2>3, <2>4, SuffixProperties
<1> QED
  BY <1>8, <1>10 DEF suffix

\* What a list of rules admits is a name that it stands for, label by label.
LEMMA AllowsConfigured ==
  ASSUME NEW rules, rules \subseteq Seq(Token), NEW ports, NEW port,
         NEW target \in [kind : {"domain", "ip"}, name : Seq(Token)],
         Allows(rules, ports, target, port)
  PROVE  Configured(rules, WriteTarget(target)[2]) /\ port \in ports
<1> DEFINE host == IF target.kind = "ip" THEN target.name
                   ELSE NormalizeTargetDomain(target.name)
<1>1. /\ host # NoName /\ port \in ports
      /\ \E rule \in {LowerCase(r) : r \in rules} :
           \/ host = rule
           \/ target.kind = "domain" /\ IsWildcard(rule) /\ WildcardCovers(rule, host)
  BY DEF Allows
<1>2. host = WriteTarget(target)[2]
  BY DEF WriteTarget
<1>3. host \in Seq(Token)
  BY <1>1, NormalizeProperties
<1> HIDE DEF host
<1>4. PICK rule \in {LowerCase(r) : r \in rules} :
        \/ host = rule
        \/ target.kind = "domain" /\ IsWildcard(rule) /\ WildcardCovers(rule, host)
  BY <1>1
<1>5. rule \in Seq(Token)
  BY LowerCaseProperties
<1>6. \/ host = rule
      \/ /\ IsWildcard(rule) /\ ~IsIp(host)
         /\ Len(Labels(host)) > Len(Labels(SuffixOf(rule)))
         /\ IsSuffix(Labels(SuffixOf(rule)), Labels(host))
  BY <1>3, <1>4, <1>5, WildcardCoversLabels DEF WildcardCovers
<1>7. Configured(rules, host)
  BY <1>6 DEF Configured
<1> QED
  BY <1>1, <1>2, <1>7

\* A target as the bridge or the base reads it.
TargetRecord == [kind : {"domain", "ip"}, name : Seq(Token)]

\* A target that survives the way between bridge and base: an address, or a name that
\* is normalized.
Settled(target) ==
  /\ target \in TargetRecord
  /\ target.kind = "domain" => NormalizeTargetDomain(target.name) = target.name
  /\ target.kind = "ip" => IsIp(target.name)

\* An address type octet and what follows it.
Wires == {1, 3, 4} \X Seq(Token)

\* What the base reads is the target that the bridge wrote.
LEMMA TargetSurvives ==
  ASSUME NEW target, Settled(target)
  PROVE  WriteTarget(target) \in Wires /\ ReadTarget(WriteTarget(target)) = target
<1>1. /\ target \in TargetRecord
      /\ target = [kind |-> target.kind, name |-> target.name]
      /\ target.name \in Seq(Token) /\ target.kind \in {"domain", "ip"}
  BY DEF Settled, TargetRecord
<1>2. CASE target.kind = "domain"
  <2>1. WriteTarget(target) = <<3, target.name>>
    BY <1>2 DEF WriteTarget, Settled
  <2> QED
    BY <1>1, <1>2, <2>1 DEF ReadTarget, Domain, Wires
<1>3. CASE target.kind = "ip"
  <2>1. PICK n \in {1, 4} : WriteTarget(target) = <<n, target.name>>
    BY <1>3 DEF WriteTarget
  <2> QED
    BY <1>1, <1>3, <2>1 DEF ReadTarget, Ip, Wires
<1> QED
  BY <1>1, <1>2, <1>3

\* What the bridge makes of an authority that it takes is settled.
LEMMA ParsedIsSettled ==
  ASSUME NEW authority \in AuthorityRecord, AuthorityIsValid(authority)
  PROVE  Settled(ParseAuthority(authority))
<1>1. authority.host \in Seq(Token)
  BY SeqMonotonic DEF AuthorityRecord, Token
<1>2. CASE IsIp(authority.host)
  BY <1>1, <1>2 DEF ParseAuthority, Ip, Settled, TargetRecord
<1>3. CASE ~IsIp(authority.host)
  <2>1. NormalizeTargetDomain(authority.host) # NoName
    BY <1>3 DEF AuthorityIsValid
  <2> QED
    BY <1>1, <1>3, <2>1, NormalizeProperties DEF ParseAuthority, Domain, Settled, TargetRecord
<1> QED
  BY <1>2, <1>3

\* A destination on its way, as far as types go.
ConnectRecord ==
  [at : {"new", "proxy", "offline", "parsed", "refused", "admitted", "asked", "dialed",
         "contradicted"},
   rules : RuleSets, authority : Authorities, target : TargetRecord \cup {NotRead},
   wire : Wires \cup {<<>>}]

\* How far a destination has come: parsed, it survives the way to the base; admitted,
\* it is on that way and within the rules.
ConnectInv ==
  /\ connect \in ConnectRecord
  /\ connect.at \in {"parsed", "admitted"} => Settled(connect.target)
  /\ connect.at = "admitted" =>
       /\ Allows(connect.rules, Ports, connect.target, connect.authority.port)
       /\ connect.wire = WriteTarget(connect.target)
  /\ connect.at = "asked" => connect.wire \in Wires
  /\ DialedIsConfigured

\* The types of what is asked.
LEMMA ConnectTypes ==
  ASSUME connect \in ConnectRecord
  PROVE  /\ connect.authority \in AuthorityRecord
         /\ connect.authority.host \in Seq(Token)
         /\ connect.rules \subseteq Seq(Token)
<1>1. Seq(STRING) \subseteq Seq(Token)
  BY SeqMonotonic DEF Token
<1> QED
  BY <1>1, ConnectAssumption DEF ConnectRecord, AuthorityRecord

\* A new destination has come nowhere yet.
LEMMA ConnectInvInit == ConnectInit => ConnectInv
BY DEF ConnectInit, ConnectInv, ConnectRecord, DialedIsConfigured

\* No step of a layer, or of a local program, breaks the invariant.
LEMMA ConnectInvStep == ConnectInv /\ [ConnectNext]_connect => ConnectInv'
<1> SUFFICES ASSUME ConnectInv, [ConnectNext]_connect PROVE ConnectInv'
  OBVIOUS
<1> USE DEF ConnectInv
<1>0. /\ connect \in ConnectRecord
      /\ connect.authority \in AuthorityRecord /\ connect.authority.host \in Seq(Token)
      /\ connect.rules \subseteq Seq(Token)
  BY ConnectTypes
<1>1. CASE LayersAreBuilt
  BY <1>1 DEF LayersAreBuilt, ConnectRecord, DialedIsConfigured
<1>2. CASE BridgeParses
  <2>1. CASE AuthorityIsValid(connect.authority)
    <3> DEFINE target == ParseAuthority(connect.authority)
    <3>1. Settled(target)
      BY <1>0, <2>1, ParsedIsSettled
    <3> HIDE DEF target
    <3>2. target \in TargetRecord
      BY <3>1 DEF Settled
    <3>3. connect' = [connect EXCEPT !.at = "parsed", !.target = target]
      BY <1>2, <2>1 DEF BridgeParses, target
    <3>4. /\ connect' \in ConnectRecord /\ connect'.at = "parsed" /\ connect'.target = target
      BY <1>0, <3>2, <3>3 DEF ConnectRecord
    <3> QED
      BY <3>1, <3>4 DEF DialedIsConfigured
  <2>2. CASE ~AuthorityIsValid(connect.authority)
    BY <1>2, <2>2 DEF BridgeParses, ConnectRecord, DialedIsConfigured
  <2> QED
    BY <2>1, <2>2
<1>3. CASE BridgeChecks
  <2>1. CASE Allows(connect.rules, Ports, connect.target, connect.authority.port)
    <3> DEFINE wire == WriteTarget(connect.target)
    <3>1. Settled(connect.target)
      BY <1>3 DEF BridgeChecks
    <3>2. wire \in Wires
      BY <3>1, TargetSurvives
    <3>3. connect' = [connect EXCEPT !.at = "admitted", !.wire = wire]
      BY <1>3, <2>1 DEF BridgeChecks
    <3> HIDE DEF wire
    <3>4. /\ connect' \in ConnectRecord /\ connect'.at = "admitted" /\ connect'.wire = wire
          /\ connect'.target = connect.target /\ connect'.rules = connect.rules
          /\ connect'.authority = connect.authority
      BY <1>0, <3>2, <3>3 DEF ConnectRecord
    <3> QED
      BY <2>1, <3>1, <3>4 DEF DialedIsConfigured, wire
  <2>2. CASE ~Allows(connect.rules, Ports, connect.target, connect.authority.port)
    BY <1>3, <2>2 DEF BridgeChecks, ConnectRecord, DialedIsConfigured
  <2> QED
    BY <2>1, <2>2
<1>4. CASE ProgramAsksBase
  <2> DEFINE wire == IF IsIp(connect.authority.host)
                     THEN WriteTarget(Ip(connect.authority.host))
                     ELSE <<3, connect.authority.host>>
  <2>1. wire \in Wires
    <3>1. ASSUME IsIp(connect.authority.host)
          PROVE  Settled(Ip(connect.authority.host))
      BY <1>0, <3>1 DEF Settled, TargetRecord, Ip
    <3> QED
      BY <1>0, <3>1, TargetSurvives DEF Wires
  <2>2. connect' = [connect EXCEPT !.at = "asked", !.wire = wire]
    BY <1>4 DEF ProgramAsksBase
  <2> HIDE DEF wire
  <2>3. connect' \in ConnectRecord /\ connect'.at = "asked" /\ connect'.wire = wire
    BY <1>0, <2>1, <2>2 DEF ConnectRecord
  <2> QED
    BY <2>1, <2>3 DEF DialedIsConfigured
<1>5. CASE BaseChecks
  <2> DEFINE target == ReadTarget(connect.wire)
             wire == WriteTarget(target)
  <2>1. connect.wire \in Wires
    BY <1>5, TargetSurvives DEF BaseChecks
  <2>2. target \in TargetRecord
    BY <2>1 DEF ReadTarget, Wires, TargetRecord, Domain, Ip
  <2>3. CASE Allows(connect.rules, Ports, target, connect.authority.port)
    <3>1. Configured(connect.rules, wire[2]) /\ connect.authority.port \in Ports
      BY <1>0, <2>2, <2>3, AllowsConfigured DEF TargetRecord
    <3>2. wire \in Wires
      <4>1. target.kind = "domain" => NormalizeTargetDomain(target.name) \in Seq(Token)
        BY <2>2, <2>3, NormalizeProperties DEF Allows, TargetRecord
      <4> QED
        BY <2>2, <4>1 DEF WriteTarget, Wires, TargetRecord
    <3>3. connect' = [connect EXCEPT !.at = "dialed", !.target = target, !.wire = wire]
      BY <1>5, <2>3 DEF BaseChecks
    <3> HIDE DEF wire, target
    <3>4. /\ connect' \in ConnectRecord /\ connect'.at = "dialed" /\ connect'.wire = wire
          /\ connect'.rules = connect.rules /\ connect'.authority = connect.authority
      BY <1>0, <2>2, <3>2, <3>3 DEF ConnectRecord
    <3> QED
      BY <3>1, <3>4 DEF DialedIsConfigured
  <2>4. CASE ~Allows(connect.rules, Ports, target, connect.authority.port)
    <3>1. connect.at # "admitted"
      BY <2>4, TargetSurvives
    <3>2. connect' = [connect EXCEPT !.at = "refused"]
      BY <1>5, <2>4, <3>1 DEF BaseChecks
    <3> QED
      BY <1>0, <3>2 DEF ConnectRecord, DialedIsConfigured
  <2> QED
    BY <2>3, <2>4
<1>6. CASE UNCHANGED connect
  BY <1>6 DEF DialedIsConfigured
<1> QED
  BY <1>1, <1>2, <1>3, <1>4, <1>5, <1>6 DEF ConnectNext

\* For any rules, ports and authorities: what reaches the sidecar is a name that the
\* rules stand for, label by label, however it was spelled and whichever way it came,
\* and the base never refuses what the bridge let through.
THEOREM ConnectDialsConfigured == ConnectSpec => []DialedIsConfigured
<1>1. ConnectInv => DialedIsConfigured
  BY DEF ConnectInv
<1> QED
  BY <1>1, ConnectInvInit, ConnectInvStep, PTL DEF ConnectSpec
---------------------------------------------------------------------------
(* The capsule and its host.                                               *)

\* A page, or none.
Pages == PageRecord \cup {None}

\* An adapter that a capsule has.
AdapterRecord ==
  [state : {"Ready", "Paused"}, proxy : Proxies, active : Pages, cleared : BOOLEAN]

\* The activity of the host that recreates its capsule.
ActivityRecord ==
  [state : {"Uninitialized"} \cup {t[2] : t \in Transitions}, saved : Pages,
   trimmed : BOOLEAN, recreations : Nat]

\* The types of capsule and activity.
CapsuleTypeOK ==
  /\ capsule \in [state : {"Stopped", "Ready", "Paused", "Failed"},
                  proxy : Proxies \cup {None}, rules : {Rules}, current : Pages,
                  purged : BOOLEAN, adapter : AdapterRecord \cup {NoAdapter}]
  /\ activity \in ActivityRecord

\* An adapter is there only with a proxy, and follows the capsule; a page in the
\* capsule is what the policy made of an admitted URL.
HostInv ==
  /\ CapsuleTypeOK
  /\ capsule.adapter # NoAdapter =>
       capsule.adapter.state = capsule.state /\ capsule.proxy # None
  /\ capsule.state \in {"Ready", "Paused"} => capsule.adapter # NoAdapter
  /\ capsule.adapter.active # None =>
       /\ UrlAllowed(capsule.rules, capsule.adapter.active)
       /\ capsule.current = ValidatedUrl(capsule.adapter.active)
  /\ capsule.current # None /\ capsule.current.host # IPv6 =>
       /\ UrlAllowed(capsule.rules, capsule.current)
       /\ ValidatedUrl(capsule.current) = capsule.current

\* An adapter is not the missing one.
LEMMA AdapterIsThere == \A a \in AdapterRecord : a # NoAdapter /\ a.state \in {"Ready", "Paused"}
BY DEF AdapterRecord, NoAdapter

\* A new host has neither adapter nor page.
LEMMA HostInvInit == HostInit => HostInv
BY DEF HostInit, HostInv, CapsuleTypeOK, NewCapsule, NoAdapter, Pages,
       ActivityRecord

\* The capsule takes an admitted URL, which its adapter, if there is one, takes too.
LEMMA PageKeepsHostInv ==
  ASSUME HostInv, NEW url \in PageRecord, UrlAllowed(capsule.rules, url),
         capsule' = [capsule EXCEPT
           !.current = ValidatedUrl(url),
           !.adapter = IF capsule.adapter # NoAdapter THEN [@ EXCEPT !.active = url] ELSE @],
         activity' = activity
  PROVE  HostInv'
<1>1. /\ ValidatedUrl(url) \in PageRecord
      /\ ValidatedUrl(ValidatedUrl(url)) = ValidatedUrl(url)
      /\ ValidatedUrl(url).host # IPv6 => UrlAllowed(capsule.rules, ValidatedUrl(url))
  BY ValidatedUrlProperties, ValidatedUrlAllowed
<1>2. /\ capsule'.state = capsule.state /\ capsule'.proxy = capsule.proxy
      /\ capsule'.rules = capsule.rules /\ capsule'.current = ValidatedUrl(url)
      /\ capsule'.purged = capsule.purged
  BY DEF HostInv, CapsuleTypeOK
<1>3. CASE capsule.adapter = NoAdapter
  <2>1. capsule'.adapter = NoAdapter /\ CapsuleTypeOK'
    BY <1>1, <1>3 DEF HostInv, CapsuleTypeOK, Pages
  <2> QED
    BY <1>1, <1>2, <1>3, <2>1 DEF HostInv, NoAdapter
<1>4. CASE capsule.adapter # NoAdapter
  <2>1. /\ capsule.adapter \in AdapterRecord
        /\ capsule'.adapter = [capsule.adapter EXCEPT !.active = url]
    BY <1>4 DEF HostInv, CapsuleTypeOK
  <2>2. /\ capsule'.adapter \in AdapterRecord /\ capsule'.adapter.active = url
        /\ capsule'.adapter.state = capsule.adapter.state
    BY <2>1 DEF AdapterRecord, Pages
  <2>3. CapsuleTypeOK'
    BY <1>1, <2>2 DEF HostInv, CapsuleTypeOK, Pages
  <2> QED
    BY <1>1, <1>2, <1>4, <2>2, <2>3, AdapterIsThere DEF HostInv
<1> QED
  BY <1>3, <1>4

\* A method of the capsule, whatever its state, keeps the invariant.
LEMMA CallKeepsHostInv ==
  ASSUME HostInv, CallCapsule
  PROVE  HostInv'
<1> USE AdapterIsThere DEF HostInv, CapsuleTypeOK
<1>1. ASSUME NEW endpoint \in Proxies, capsule' = AttachProxy(capsule, endpoint)
      PROVE  HostInv'
  BY <1>1, HostAssumption DEF CallCapsule, AttachProxy
<1>2. CASE capsule' = StartCapsule(capsule)
  <2>1. CASE capsule.proxy = None
    BY <1>2, <2>1 DEF CallCapsule, StartCapsule
  <2>2. CASE capsule.proxy # None
    <3>1. Adapter(capsule.proxy) \in AdapterRecord
      BY <2>2 DEF Adapter, AdapterRecord, Pages
    <3> QED
      BY <1>2, <2>2, <3>1 DEF CallCapsule, StartCapsule, Adapter
  <2> QED
    BY <2>1, <2>2
<1>3. ASSUME NEW url \in Urls, capsule' = Navigate(capsule, url)
      PROVE  HostInv'
  <2>1. url \in PageRecord /\ activity' = activity
    BY HostAssumption, UrlIsPage DEF CallCapsule
  <2>2. CASE Navigates(capsule, url)
    <3>1. capsule.adapter # NoAdapter /\ capsule.adapter.state = "Ready"
      BY <2>2 DEF Navigates
    <3>2. capsule' = [capsule EXCEPT
             !.current = ValidatedUrl(url),
             !.adapter = IF capsule.adapter # NoAdapter THEN [@ EXCEPT !.active = url] ELSE @]
      BY <1>3, <2>2, <3>1 DEF Navigate
    <3> QED
      BY <2>1, <2>2, <3>2, PageKeepsHostInv DEF Navigates
  <2>3. CASE ~Navigates(capsule, url)
    BY <1>3, <2>1, <2>3 DEF Navigate
  <2> QED
    BY <2>2, <2>3
<1>4. CASE capsule' = Pause(capsule)
  <2>1. capsule.state = "Ready" =>
          [capsule.adapter EXCEPT !.state = "Paused"] \in AdapterRecord
    BY DEF AdapterRecord
  <2> QED
    BY <1>4, <2>1 DEF CallCapsule, Pause, AdapterRecord
<1>5. CASE capsule' = Resume(capsule)
  <2>1. capsule.state = "Paused" =>
          [capsule.adapter EXCEPT !.state = "Ready"] \in AdapterRecord
    BY DEF AdapterRecord
  <2> QED
    BY <1>5, <2>1 DEF CallCapsule, Resume, AdapterRecord
<1>6. CASE capsule' = LowMemory(capsule)
  <2>1. capsule.adapter # NoAdapter =>
          [capsule.adapter EXCEPT !.cleared = TRUE] \in AdapterRecord
    BY DEF AdapterRecord
  <2> QED
    BY <1>6, <2>1 DEF CallCapsule, LowMemory, HasAdapter, AdapterRecord
<1>7. CASE capsule' = ShutdownCapsule(capsule)
  BY <1>7 DEF CallCapsule, ShutdownCapsule, NewCapsule, NoAdapter, Pages
<1> QED
  BY <1>1, <1>2, <1>3, <1>4, <1>5, <1>6, <1>7 DEF CallCapsule

\* So does every other step of the host.
LEMMA HostInvStep == HostInv /\ [HostNext]_hostVars => HostInv'
<1> SUFFICES ASSUME HostInv, [HostNext]_hostVars PROVE HostInv'
  OBVIOUS
<1>1. CASE CallCapsule
  BY <1>1, CallKeepsHostInv
<1>2. CASE RestorePage
  <2>1. PICK url \in PageRecord : capsule' = RestoreState(capsule, url) /\ activity' = activity
    BY <1>2, HostAssumption, UrlIsPage DEF RestorePage, Bundles, HostInv, CapsuleTypeOK, ActivityRecord, Pages
  <2>2. CASE UrlAllowed(capsule.rules, url)
    BY <2>1, <2>2, PageKeepsHostInv DEF RestoreState, HasAdapter
  <2>3. CASE ~UrlAllowed(capsule.rules, url)
    BY <2>1, <2>3 DEF RestoreState, HostInv, CapsuleTypeOK
  <2> QED
    BY <2>2, <2>3
<1>3. CASE MoveActivity \/ SaveInstanceState \/ RestoreInstanceState \/ TrimMemory
  <2>1. capsule' = capsule /\ capsule.current \in Pages /\ activity \in ActivityRecord
    BY <1>3 DEF MoveActivity, SaveInstanceState, RestoreInstanceState, TrimMemory, HostInv, CapsuleTypeOK
  <2>2. activity' \in ActivityRecord
    <3>1. CASE MoveActivity
      BY <2>1, <3>1 DEF MoveActivity, ActivityRecord
    <3>2. CASE SaveInstanceState
      BY <2>1, <3>2 DEF SaveInstanceState, ActivityRecord
    <3>3. CASE RestoreInstanceState
      <4>0. activity.saved \in Pages
        BY <2>1 DEF ActivityRecord
      <4>1. Bundles \subseteq Pages
        BY <4>0, HostAssumption, UrlIsPage, Zenon DEF Bundles, Pages
      <4>2. PICK bundle \in Pages :
              activity' = [activity EXCEPT !.saved = bundle, !.recreations = @ + 1]
        BY <3>3, <4>1 DEF RestoreInstanceState
      <4> DEFINE new == [state |-> activity.state, saved |-> bundle,
                         trimmed |-> activity.trimmed, recreations |-> activity.recreations + 1]
      <4>3. activity' = new
        BY <2>1, <4>2 DEF ActivityRecord
      <4>4. new \in ActivityRecord
        BY <2>1, <4>2 DEF ActivityRecord
      <4> QED
        BY <4>3, <4>4
    <3>4. CASE TrimMemory
      BY <2>1, <3>4 DEF TrimMemory, ActivityRecord
    <3> QED
      BY <1>3, <3>1, <3>2, <3>3, <3>4
  <2> QED
    BY <2>1, <2>2 DEF HostInv, CapsuleTypeOK
<1>4. CASE UNCHANGED hostVars
  BY <1>4 DEF hostVars, HostInv, CapsuleTypeOK
<1> QED
  BY <1>1, <1>2, <1>3, <1>4 DEF HostNext

\* Whatever the rules, and whatever a host calls and restores in which order: the
\* capsule and its adapter agree, what is shown passed the policy, and the text of a
\* page brings the same page back.
THEOREM HostCapsuleAgrees == HostSpec => []CapsuleAgrees
<1>1. HostInv => CapsuleAgrees
  <2> SUFFICES ASSUME HostInv PROVE CapsuleAgrees
    OBVIOUS
  <2>1. capsule.state = "Ready" => capsule.adapter.state = "Ready"
    BY DEF HostInv
  <2> QED
    BY <2>1 DEF HostInv, CapsuleAgrees, HasAdapter, Fetches, Navigates
<1> QED
  BY <1>1, HostInvInit, HostInvStep, PTL DEF HostSpec
---------------------------------------------------------------------------
(* The sessions of the GUI thread.                                         *)

\* What SessionOwnsCapsule asks of one session.
Sound(s) ==
  /\ s.state \in {"Denied", "Offline", "Failed", "RendererUnqualified", "Closed"}
  /\ s.capsule # NoCapsule <=> s.state = "RendererUnqualified"
  /\ s.capsule # NoCapsule =>
       /\ s.capsule.state = "Ready"
       /\ s.capsule.proxy \in Endpoints
       /\ s.capsule.current = ValidatedUrl(s.target)
       /\ NavigationAdmits(s.capsule.rules, s.target.host)

\* A session has these three fields and no other.
IsSession(s) == s = [state |-> s.state, target |-> s.target, capsule |-> s.capsule]

\* The GUI thread handles a request with the snapshot that it took for it.
SessionsInv ==
  /\ status \in Statuses
  /\ gui \in [at : {"accept", "read", "snapshot", "handle"},
             request : GuiRequests \cup {Request("none")}, snapshot : Statuses \cup {None}]
  /\ gui.at = "handle" => gui.snapshot \in Statuses
  /\ sessions \in Seq({sessions[id] : id \in DOMAIN sessions})
  /\ \A id \in DOMAIN sessions : IsSession(sessions[id]) /\ Sound(sessions[id])
  /\ BoundProfileIsValid

\* A capsule that takes a page keeps its state, its proxy and its rules.
LEMMA PageIsTaken ==
  ASSUME NEW c, NEW page, NEW adapter,
         c = [state |-> c.state, proxy |-> c.proxy, rules |-> c.rules, current |-> c.current,
              purged |-> c.purged, adapter |-> c.adapter]
  PROVE  LET d == [c EXCEPT !.current = page, !.adapter = adapter] IN
         d.state = c.state /\ d.proxy = c.proxy /\ d.rules = c.rules /\ d.current = page
<1> DEFINE paged == [c EXCEPT !.current = page]
<1>1. paged = [state |-> c.state, proxy |-> c.proxy, rules |-> c.rules, current |-> page,
               purged |-> c.purged, adapter |-> c.adapter]
  OBVIOUS
<1>2. LET d == [paged EXCEPT !.adapter = adapter] IN
      d.state = c.state /\ d.proxy = c.proxy /\ d.rules = c.rules /\ d.current = page
  <2> HIDE DEF paged
  <2> QED
    BY <1>1
<1> QED
  BY <1>2

\* A capsule that is started behind an endpoint is Ready; once it has navigated its
\* page is the target's, which its rules admit.
LEMMA BrowserNavigates ==
  ASSUME NEW target, NEW endpoint \in Endpoints,
         Navigates(ProtectedBrowser(endpoint), target)
  PROVE  LET shown == Navigate(ProtectedBrowser(endpoint), target) IN
         /\ shown.state = "Ready" /\ shown.proxy = endpoint
         /\ shown.current = ValidatedUrl(target)
         /\ NavigationAdmits(shown.rules, target.host)
<1> DEFINE started == ProtectedBrowser(endpoint)
           shown == Navigate(started, target)
<1>1. started = [state |-> "Ready", proxy |-> endpoint, rules |-> profile.domains,
                 current |-> None, purged |-> FALSE, adapter |-> Adapter(endpoint)]
  BY EndpointsAssumption DEF ProtectedBrowser, StartCapsule, AttachProxy, NewCapsule
<1>2. PICK adapter : shown = [started EXCEPT !.current = ValidatedUrl(target), !.adapter = adapter]
  BY DEF Navigate
<1>3. /\ shown.state = "Ready" /\ shown.proxy = endpoint
      /\ shown.rules = started.rules /\ shown.current = ValidatedUrl(target)
  <2> HIDE DEF started, shown
  <2> QED
    BY <1>1, <1>2, PageIsTaken
<1>4. NavigationAdmits(started.rules, target.host)
  BY DEF Navigates, UrlAllowed
<1> QED
  BY <1>3, <1>4

\* Whatever is asked for and whatever the snapshot says, opening makes a session that
\* owns its capsule, or none.
LEMMA OpenedIsSound ==
  ASSUME NEW target, NEW snapshot \in Statuses
  PROVE  IsSession(OpenSession(target, snapshot)) /\ Sound(OpenSession(target, snapshot))
<1> DEFINE opened == OpenSession(target, snapshot)
           started == ProtectedBrowser(snapshot.endpoint)
           shown == Navigate(started, target)
<1>1. CASE \E state \in {"Denied", "Offline", "Failed"} : opened = TerminalSession(target, state)
  BY <1>1 DEF TerminalSession, NoCapsule, IsSession, Sound
<1>2. CASE /\ Usable(snapshot) /\ Navigates(started, target)
           /\ opened = [state |-> "RendererUnqualified", target |-> target, capsule |-> shown]
  <2>1. snapshot.endpoint \in Endpoints
    BY <1>2 DEF Usable, Statuses
  <2>2. /\ shown.state = "Ready" /\ shown.proxy = snapshot.endpoint
        /\ shown.current = ValidatedUrl(target)
        /\ NavigationAdmits(shown.rules, target.host)
    BY <1>2, <2>1, BrowserNavigates
  <2>3. shown # NoCapsule
    BY <2>2 DEF NoCapsule
  <2> QED
    BY <1>2, <2>1, <2>2, <2>3 DEF IsSession, Sound
<1>3. ~QualifiesOpen(RendererQualification(shown))
  BY DEF QualifiesOpen, RendererQualification
<1> QED
  BY <1>1, <1>2, <1>3 DEF OpenSession

\* A session that is appended is the last, and the others are as they were.
LEMMA AppendedSession ==
  ASSUME SessionsInv, NEW s, IsSession(s), Sound(s), sessions' = Append(sessions, s)
  PROVE  /\ (sessions \in Seq({sessions[id] : id \in DOMAIN sessions}))'
         /\ (\A id \in DOMAIN sessions : IsSession(sessions[id]) /\ Sound(sessions[id]))'
<1> DEFINE old == {sessions[id] : id \in DOMAIN sessions}
           all == {sessions'[id] : id \in DOMAIN sessions'}
<1>1. sessions \in Seq(old \cup {s}) /\ s \in old \cup {s}
  BY SeqMonotonic DEF SessionsInv
<1>2. /\ sessions' \in Seq(old \cup {s}) /\ Len(sessions) \in Nat
      /\ DOMAIN sessions' = 1..(Len(sessions) + 1) /\ DOMAIN sessions = 1..Len(sessions)
      /\ \A id \in 1..Len(sessions) : sessions'[id] = sessions[id]
      /\ sessions'[Len(sessions) + 1] = s
  BY <1>1, AppendProperties, LenProperties
<1>3. sessions' \in [1..(Len(sessions) + 1) -> all]
  BY <1>2, LenProperties
<1>4. sessions' \in Seq(all)
  <2>1. Len(sessions) + 1 \in Nat
    BY <1>2
  <2> HIDE DEF all
  <2> QED
    BY <1>3, <2>1, SeqDef
<1>5. \A id \in DOMAIN sessions' : id \in DOMAIN sessions \/ id = Len(sessions) + 1
  BY <1>2
<1> QED
  BY <1>2, <1>4, <1>5 DEF SessionsInv, IsSession, Sound

\* A session that is closed has no capsule, and the others are as they were.
LEMMA ClosedSession ==
  ASSUME SessionsInv, NEW id \in DOMAIN sessions, CloseSession(id)
  PROVE  /\ (sessions \in Seq({sessions[i] : i \in DOMAIN sessions}))'
         /\ (\A i \in DOMAIN sessions : IsSession(sessions[i]) /\ Sound(sessions[i]))'
<1> DEFINE all == {sessions'[i] : i \in DOMAIN sessions'}
           s == [sessions[id] EXCEPT !.state = "Closed", !.capsule = NoCapsule]
<1>1. /\ Len(sessions) \in Nat /\ DOMAIN sessions = 1..Len(sessions)
      /\ sessions = [i \in 1..Len(sessions) |-> sessions[i]]
  BY LenProperties DEF SessionsInv
<1>2. sessions' = [sessions EXCEPT ![id] = s]
  BY <1>1 DEF CloseSession
<1>3. /\ DOMAIN sessions' = 1..Len(sessions) /\ sessions'[id] = s
      /\ \A i \in 1..Len(sessions) : i # id => sessions'[i] = sessions[i]
      /\ sessions' = [i \in 1..Len(sessions) |-> sessions'[i]]
  BY <1>1, <1>2
<1>4. sessions' \in [1..Len(sessions) -> all]
  BY <1>3
<1>5. sessions' \in Seq(all)
  BY <1>1, <1>4, SeqDef
<1>6. s.state = "Closed" /\ s.capsule = NoCapsule /\ IsSession(s)
  <2>1. sessions[id] = [state |-> sessions[id].state, target |-> sessions[id].target,
                        capsule |-> sessions[id].capsule]
    BY DEF SessionsInv, IsSession
  <2> DEFINE c == [sessions[id] EXCEPT !.state = "Closed"]
  <2>3. c = [state |-> "Closed", target |-> sessions[id].target, capsule |-> sessions[id].capsule]
    BY <2>1
  <2>2. s = [state |-> "Closed", target |-> sessions[id].target, capsule |-> NoCapsule]
    <3>1. s = [c EXCEPT !.capsule = NoCapsule]
      OBVIOUS
    <3> HIDE DEF c, s
    <3> QED
      BY <2>3, <3>1
  <2> QED
    BY <2>2 DEF IsSession
<1>7. Sound(s)
  BY <1>6 DEF Sound
<1>8. ASSUME NEW i \in DOMAIN sessions'
      PROVE  IsSession(sessions'[i]) /\ Sound(sessions'[i])
  <2>1. CASE i = id
    BY <1>3, <1>6, <1>7, <2>1
  <2>2. CASE i # id
    <3>1. i \in DOMAIN sessions /\ sessions'[i] = sessions[i]
      BY <1>1, <1>3, <1>8, <2>2
    <3> QED
      BY <3>1 DEF SessionsInv
  <2> QED
    BY <2>1, <2>2
<1> QED
  BY <1>5, <1>8 DEF IsSession, Sound

\* The client starts with the default profile and no session.
LEMMA SessionsInvInit == SessionsInit => SessionsInv
<1> SUFFICES ASSUME SessionsInit PROVE SessionsInv
  OBVIOUS
<1>1. ProfileIsValid(DefaultProfile)
  <2> DEFINE p == DefaultProfile
  <2>5. /\ p.id = "default-fleet" /\ p.primary = Relay("127.0.0.1", 43111)
        /\ p.fallback = <<Relay("127.0.0.1", 43112)>>
        /\ p.destinations = <<[id |-> "docs", name |-> "docs", scheme |-> "webgate"]>>
        /\ p.domains # {}
    <3>1. p.id = "default-fleet" /\ p.primary = Relay("127.0.0.1", 43111)
      BY DEF DefaultProfile
    <3>2. p.fallback = <<Relay("127.0.0.1", 43112)>>
      BY DEF DefaultProfile
    <3>3. p.destinations = <<[id |-> "docs", name |-> "docs", scheme |-> "webgate"]>>
      BY DEF DefaultProfile
    <3>4. p.domains = {<<"service">>, <<"docs", ".", "internal">>}
      BY DEF DefaultProfile
    <3> QED
      BY <3>1, <3>2, <3>3, <3>4
  <2>6. \A port \in Nat \ {0} : RelayIsValid(Relay("127.0.0.1", port))
    BY DEF RelayIsValid, Relay
  <2> HIDE DEF p
  <2>1. p.id # "" /\ RelayIsValid(p.primary)
    BY <2>5, <2>6
  <2>2. \A i \in DOMAIN p.fallback : RelayIsValid(p.fallback[i])
    BY <2>5, <2>6
  <2>3. p.destinations # <<>> /\ p.domains # {}
    BY <2>5, EmptySeq
  <2>4. \A i \in DOMAIN p.destinations :
          LET d == p.destinations[i] IN
          d.id # "" /\ d.name # "" /\ d.scheme \in {"webgate", "https"}
    <3>1. \A i \in DOMAIN p.destinations :
            p.destinations[i] = [id |-> "docs", name |-> "docs", scheme |-> "webgate"]
      BY <2>5
    <3>2. \A d : d = [id |-> "docs", name |-> "docs", scheme |-> "webgate"] =>
                  d.id # "" /\ d.name # "" /\ d.scheme \in {"webgate", "https"}
      OBVIOUS
    <3> QED
      BY <3>1, <3>2
  <2> QED
    BY <2>1, <2>2, <2>3, <2>4 DEF ProfileIsValid, p
<1>2. sessions \in Seq({sessions[id] : id \in DOMAIN sessions}) /\ DOMAIN sessions = {}
  BY DEF SessionsInit
<1> QED
  BY <1>1, <1>2 DEF SessionsInit, SessionsInv, Waiting, BoundProfileIsValid

\* A request that is handled changes the profile to a valid one, or the sessions.
LEMMA HandlingKeepsInv ==
  ASSUME SessionsInv, GuiHandles
  PROVE  SessionsInv'
<1>1. status' \in Statuses /\ gui' = Waiting /\ gui.snapshot \in Statuses
  BY DEF GuiHandles, SessionsInv
<1>2. gui' \in [at : {"accept", "read", "snapshot", "handle"},
               request : GuiRequests \cup {Request("none")}, snapshot : Statuses \cup {None}]
      /\ gui'.at # "handle"
  BY <1>1 DEF Waiting
<1>3. CASE BindConfig(gui.request.text) /\ UNCHANGED sessions
  <2>1. BoundProfileIsValid'
    BY <1>3 DEF BindConfig, TextIsAccepted, FromText, BoundProfileIsValid, SessionsInv
  <2> QED
    BY <1>1, <1>2, <1>3, <2>1 DEF SessionsInv, IsSession, Sound
<1>4. CASE OpenApplication(gui.request.target, gui.snapshot) /\ UNCHANGED profile
  <2>1. /\ (sessions \in Seq({sessions[id] : id \in DOMAIN sessions}))'
        /\ (\A id \in DOMAIN sessions : IsSession(sessions[id]) /\ Sound(sessions[id]))'
    BY <1>1, <1>4, OpenedIsSound, AppendedSession DEF OpenApplication
  <2> QED
    BY <1>1, <1>2, <1>4, <2>1 DEF SessionsInv, BoundProfileIsValid
<1>5. CASE /\ gui.request.session \in DOMAIN sessions
           /\ CloseSession(gui.request.session) /\ UNCHANGED profile
  <2>1. /\ (sessions \in Seq({sessions[id] : id \in DOMAIN sessions}))'
        /\ (\A id \in DOMAIN sessions : IsSession(sessions[id]) /\ Sound(sessions[id]))'
    BY <1>5, ClosedSession
  <2> QED
    BY <1>1, <1>2, <1>5, <2>1 DEF SessionsInv, BoundProfileIsValid
<1>6. CASE UNCHANGED <<profile, sessions>>
  BY <1>1, <1>2, <1>6 DEF SessionsInv, BoundProfileIsValid
<1> QED
  BY <1>3, <1>4, <1>5, <1>6 DEF GuiHandles

\* Every step of the client keeps the invariant.
LEMMA SessionsInvStep == SessionsInv /\ [SessionsNext]_sessionVars => SessionsInv'
<1> SUFFICES ASSUME SessionsInv, [SessionsNext]_sessionVars PROVE SessionsInv'
  OBVIOUS
<1>1. CASE GuiHandles
  BY <1>1, HandlingKeepsInv
<1>2. CASE TransportMoves \/ ClientConnectsToGui \/ GuiReads \/ GuiTakesSnapshot
  <2>1. profile' = profile /\ sessions' = sessions /\ status' \in Statuses
    BY <1>2 DEF TransportMoves, ClientConnectsToGui, GuiReads, GuiTakesSnapshot, SessionsInv
  <2>2. /\ gui' \in [at : {"accept", "read", "snapshot", "handle"},
                   request : GuiRequests \cup {Request("none")}, snapshot : Statuses \cup {None}]
        /\ gui'.at = "handle" => gui'.snapshot \in Statuses
    <3>1. CASE TransportMoves
      BY <3>1 DEF TransportMoves, SessionsInv
    <3>2. CASE ClientConnectsToGui
      BY <3>2 DEF ClientConnectsToGui, SessionsInv
    <3>3. CASE GuiReads
      <4>2. CASE gui' = Waiting
        BY <4>2 DEF Waiting
      <4>3. ASSUME NEW request \in GuiRequests,
                   gui' = [gui EXCEPT !.at = "snapshot", !.request = request]
            PROVE  /\ gui' \in [at : {"accept", "read", "snapshot", "handle"},
                               request : GuiRequests \cup {Request("none")}, snapshot : Statuses \cup {None}]
                   /\ gui'.at # "handle"
        <5> DEFINE reading == [gui EXCEPT !.at = "snapshot"]
        <5>1. /\ reading \in [at : {"accept", "read", "snapshot", "handle"},
                              request : GuiRequests \cup {Request("none")}, snapshot : Statuses \cup {None}]
              /\ reading.at = "snapshot" /\ gui' = [reading EXCEPT !.request = request]
          BY <4>3 DEF SessionsInv
        <5> HIDE DEF reading
        <5> QED
          BY <5>1
      <4> QED
        BY <3>3, <4>2, <4>3 DEF GuiReads
    <3>4. CASE GuiTakesSnapshot
      BY <3>4 DEF GuiTakesSnapshot, SessionsInv
    <3> QED
      BY <1>2, <3>1, <3>2, <3>3, <3>4
  <2> QED
    BY <2>1, <2>2 DEF SessionsInv, BoundProfileIsValid
<1>3. CASE UNCHANGED sessionVars
  BY <1>3 DEF sessionVars, SessionsInv, BoundProfileIsValid
<1> QED
  BY <1>1, <1>2, <1>3 DEF SessionsNext

\* The invariant of the sessions holds in every state.
THEOREM SessionsInvHolds == SessionsSpec => []SessionsInv
BY SessionsInvInit, SessionsInvStep, PTL DEF SessionsSpec

\* Whatever is bound, opened and closed in whatever order and with whatever
\* transport: a session has a capsule exactly while its renderer is unqualified, none
\* is ever reported open, and the capsule is on the page asked for.
THEOREM SessionsOwnCapsules == SessionsSpec => []SessionOwnsCapsule
<1>1. SessionsInv => SessionOwnsCapsule
  BY DEF SessionsInv, Sound, SessionOwnsCapsule
<1> QED
  BY <1>1, SessionsInvHolds, PTL

\* The profile in use passes validate, whatever texts are bound.
THEOREM SessionsProfileValid == SessionsSpec => []BoundProfileIsValid
<1>1. SessionsInv => BoundProfileIsValid
  BY DEF SessionsInv
<1> QED
  BY <1>1, SessionsInvHolds, PTL

---------------------------------------------------------------------------
(* Releases.                                                               *)

\* One component more, after those that are kept.
Keep(kept, number) == IF number <= MaxNumber THEN Append(kept, number) ELSE kept

\* The prefixes of a version, each with the numbers that are kept of it.
IsKeptTable(g, version, n) ==
  g = [s \in SUBSET (1..n) |->
         IF s = {} THEN <<>> ELSE Keep(g[s \ {Max(s)}], version[Max(s)])]

\* A table for a prefix makes one for the next.
LEMMA KeptTableGrows ==
  ASSUME NEW version, NEW n \in Nat, NEW g, IsKeptTable(g, version, n)
  PROVE  \E h : IsKeptTable(h, version, n + 1)
<1> DEFINE h == [s \in SUBSET (1..n + 1) |->
                   IF n + 1 \in s THEN Keep(g[s \ {n + 1}], version[n + 1]) ELSE g[s]]
<1>1. \A s \in SUBSET (1..n + 1) :
        h[s] = IF s = {} THEN <<>> ELSE Keep(h[s \ {Max(s)}], version[Max(s)])
  <2> SUFFICES ASSUME NEW s \in SUBSET (1..n + 1)
               PROVE  h[s] = IF s = {} THEN <<>>
                             ELSE Keep(h[s \ {Max(s)}], version[Max(s)])
    OBVIOUS
  <2>1. CASE n + 1 \in s
    <3>1. Max(s) = n + 1
      BY <2>1, MaxOfPrefix
    <3>2. s \ {n + 1} \in SUBSET (1..n + 1) /\ n + 1 \notin s \ {n + 1}
      OBVIOUS
    <3>3. h[s \ {n + 1}] = g[s \ {n + 1}]
      BY <3>2
    <3>4. h[s] = Keep(g[s \ {n + 1}], version[n + 1])
      BY <2>1
    <3> HIDE DEF h
    <3> QED
      BY <2>1, <3>1, <3>3, <3>4
  <2>2. CASE n + 1 \notin s
    <3>1. s \in SUBSET (1..n) /\ s \ {Max(s)} \in SUBSET (1..n)
      <4>1. \A x \in s : x \in 1..n
        BY <2>2
      <4>2. \A x : s \ {x} \subseteq s
        OBVIOUS
      <4> QED
        BY <4>1, <4>2
    <3>2. /\ s \ {Max(s)} \subseteq s
          /\ s \ {Max(s)} \in SUBSET (1..n + 1) /\ n + 1 \notin s \ {Max(s)}
      <4>1. \A x : /\ s \ {x} \subseteq s
                   /\ s \ {x} \in SUBSET (1..n + 1) /\ n + 1 \notin s \ {x}
        BY <2>2
      <4> QED
        BY <4>1
    <3>3. h[s] = g[s] /\ h[s \ {Max(s)}] = g[s \ {Max(s)}]
      BY <2>2, <3>2
    <3>4. g[s] = IF s = {} THEN <<>> ELSE Keep(g[s \ {Max(s)}], version[Max(s)])
      BY <3>1 DEF IsKeptTable
    <3> HIDE DEF h
    <3> QED
      BY <3>3, <3>4
  <2> QED
    BY <2>1, <2>2
<1>2. h = [s \in SUBSET (1..n + 1) |-> h[s]]
  OBVIOUS
<1> HIDE DEF h
<1>3. IsKeptTable(h, version, n + 1)
  BY <1>1, <1>2 DEF IsKeptTable
<1> QED
  BY <1>3

\* There is a table for every prefix.
LEMMA KeptTableExists ==
  ASSUME NEW version, NEW n \in Nat
  PROVE  \E g : IsKeptTable(g, version, n)
<1> DEFINE Missing == {k \in Nat : ~\E g : IsKeptTable(g, version, k)}
<1>1. ASSUME Missing # {} PROVE FALSE
  <2>1. PICK m \in Missing : \A k \in Missing : m <= k
    BY <1>1, LeastNatural
  <2>2. m # 0
    <3> DEFINE g == [s \in SUBSET (1..0) |-> <<>>]
    <3>1. IsKeptTable(g, version, 0)
      BY DEF IsKeptTable
    <3> QED
      BY <3>1, <2>1
  <2>3. m - 1 \in Nat /\ m - 1 \notin Missing /\ (m - 1) + 1 = m
    BY <2>1, <2>2
  <2>4. PICK g : IsKeptTable(g, version, m - 1)
    BY <2>3
  <2>5. \E h : IsKeptTable(h, version, m)
    BY <2>3, <2>4, KeptTableGrows
  <2> QED
    BY <2>1, <2>5
<1> QED
  BY <1>1


\* All components of a version that are numbers are kept.
LEMMA NumbersAreKept ==
  ASSUME NEW version \in Seq(0..MaxNumber)
  PROVE  Numbers(version) = version
<1> DEFINE n == Len(version)
<1>1. n \in Nat /\ DOMAIN version = 1..n
  BY LenProperties
<1> DEFINE g == CHOOSE g : IsKeptTable(g, version, n)
<1>2. IsKeptTable(g, version, n)
  BY <1>1, KeptTableExists
<1>3. Numbers(version) = g[1..n]
  BY <1>1 DEF Numbers, FoldLeft, MapThenFoldSet, IsKeptTable, Keep
<1> HIDE DEF g
<1> DEFINE Wrong == {k \in Nat : k <= n /\ g[1..k] # SubSeq(version, 1, k)}
<1>4. ASSUME Wrong # {} PROVE FALSE
  <2>1. PICK k \in Wrong : \A i \in Wrong : k <= i
    BY <1>4, LeastNatural
  <2>2. k # 0
    <3>1. 1..0 = {} /\ g[1..0] = <<>>
      BY <1>2 DEF IsKeptTable
    <3>2. SubSeq(version, 1, 0) = <<>>
      BY SubSeqEmpty
    <3> QED
      BY <2>1, <3>1, <3>2
  <2> DEFINE i == k - 1
  <2>3. /\ i \in Nat /\ i + 1 = k /\ k <= n /\ i <= n
        /\ g[1..i] = SubSeq(version, 1, i)
    <3>1. /\ k \in Nat /\ k <= n /\ k - 1 \in Nat /\ (k - 1) + 1 = k /\ k - 1 <= n
          /\ ~(k <= k - 1)
      BY <1>1, <2>1, <2>2
    <3>2. k - 1 \notin Wrong
      <4> HIDE DEF Wrong
      <4> QED
        BY <2>1, <3>1
    <3> QED
      BY <3>1, <3>2
  <2> HIDE DEF i
  <2>4. /\ 1..k # {} /\ k \in 1..k /\ (1..k) \ {k} = 1..i /\ 1..k \in SUBSET (1..n)
    BY <1>1, <2>3, PrefixProperties
  <2>5. Max(1..k) = k
    BY <2>3, <2>4, MaxOfPrefix
  <2>6. g[1..k] = Keep(g[(1..k) \ {Max(1..k)}], version[Max(1..k)])
    BY <1>2, <2>4 DEF IsKeptTable
  <2>7. version[k] \in 0..MaxNumber /\ k \in 1..n
    <3>1. k \in 1..n
      BY <1>1, <2>3
    <3> QED
      BY <3>1, ElementOfSeq
  <2>8. g[1..k] = Append(SubSeq(version, 1, i), version[k])
    <3>1. version[k] <= MaxNumber
      BY <2>7
    <3> QED
      BY <2>3, <2>4, <2>5, <2>6, <3>1 DEF Keep
  <2>9. SubSeq(version, 1, k) = Append(SubSeq(version, 1, i), version[k])
    <3>1. SubSeq(version, 1, k) = SubSeq(version, 1, k - 1) \o <<version[k]>>
      BY <2>3, <2>7, SubSeqRecursiveSecond
    <3>2. k - 1 = i
      BY <2>3
    <3>3. SubSeq(version, 1, i) \in Seq(0..MaxNumber)
      <4>1. \A j \in 1..i : j \in 1..n
        BY <1>1, <2>3
      <4>2. \A j \in 1..i : version[j] \in 0..MaxNumber
        BY <4>1, ElementOfSeq
      <4> QED
        BY <2>3, <4>2, SubSeqProperties
    <3> QED
      BY <2>7, <3>1, <3>2, <3>3, AppendIsConcat
  <2> QED
    BY <2>1, <2>8, <2>9
<1>5. g[1..n] = SubSeq(version, 1, n)
  BY <1>1, <1>4
<1> QED
  BY <1>3, <1>5, SubSeqFull

\* What is kept of a version are natural numbers.
LEMMA NumbersAreNumbers ==
  ASSUME NEW version \in Seq(Nat)
  PROVE  Numbers(version) \in Seq(Nat)
<1> DEFINE n == Len(version)
<1>1. n \in Nat /\ DOMAIN version = 1..n
  BY LenProperties
<1> DEFINE g == CHOOSE g : IsKeptTable(g, version, n)
<1>2. IsKeptTable(g, version, n)
  BY <1>1, KeptTableExists
<1>3. Numbers(version) = g[1..n]
  BY <1>1 DEF Numbers, FoldLeft, MapThenFoldSet, IsKeptTable, Keep
<1> HIDE DEF g
<1> DEFINE Wrong == {k \in Nat : k <= n /\ g[1..k] \notin Seq(Nat)}
<1>4. ASSUME Wrong # {} PROVE FALSE
  <2>1. PICK k \in Wrong : \A i \in Wrong : k <= i
    BY <1>4, LeastNatural
  <2>2. k # 0
    <3>1. 1..0 = {} /\ g[1..0] = <<>>
      BY <1>2 DEF IsKeptTable
    <3>2. <<>> \in Seq(Nat)
      OBVIOUS
    <3> QED
      BY <2>1, <3>1, <3>2
  <2> DEFINE i == k - 1
  <2>3. i \in Nat /\ i + 1 = k /\ k <= n /\ i <= n /\ g[1..i] \in Seq(Nat)
    <3>1. /\ k \in Nat /\ k <= n /\ k - 1 \in Nat /\ (k - 1) + 1 = k /\ k - 1 <= n
          /\ ~(k <= k - 1)
      BY <1>1, <2>1, <2>2
    <3>2. k - 1 \notin Wrong
      <4> HIDE DEF Wrong
      <4> QED
        BY <2>1, <3>1
    <3> QED
      BY <3>1, <3>2
  <2> HIDE DEF i
  <2>4. /\ 1..k # {} /\ k \in 1..k /\ (1..k) \ {k} = 1..i /\ 1..k \in SUBSET (1..n)
    BY <1>1, <2>3, PrefixProperties
  <2>5. Max(1..k) = k
    BY <2>3, <2>4, MaxOfPrefix
  <2>6. g[1..k] = Keep(g[1..i], version[k])
    BY <1>2, <2>4, <2>5 DEF IsKeptTable
  <2>7. version[k] \in Nat
    <3>1. k \in 1..n
      BY <1>1, <2>3
    <3> QED
      BY <3>1, ElementOfSeq
  <2>8. Append(g[1..i], version[k]) \in Seq(Nat)
    BY <2>3, <2>7, AppendProperties
  <2> QED
    BY <2>1, <2>3, <2>6, <2>8 DEF Keep
<1>5. g[1..n] \in Seq(Nat)
  BY <1>1, <1>4
<1> QED
  BY <1>3, <1>5

\* A component of a sequence of numbers, or the zero for a missing one.
LEMMA PartIsNumber ==
  ASSUME NEW a \in Seq(Nat), NEW i \in Nat
  PROVE  PartAt(a, i) \in Nat
BY LenProperties, ElementOfSeq DEF PartAt

\* The index at which a version is older may be any, and not only one of theirs.
LEMMA OlderAt ==
  ASSUME NEW a \in Seq(Nat), NEW c \in Seq(Nat), NEW i \in Nat \ {0},
         PartAt(a, i) < PartAt(c, i), \A j \in 1..(i - 1) : PartAt(a, j) = PartAt(c, j)
  PROVE  Older(a, c)
<1>1. i \in DOMAIN a \cup DOMAIN c
  BY DEF PartAt
<1> QED
  BY <1>1 DEF Older

\* Not to be older is transitive.
LEMMA NotOlderTransitive ==
  ASSUME NEW a \in Seq(Nat), NEW b \in Seq(Nat), NEW c \in Seq(Nat),
         ~Older(b, a), ~Older(c, b)
  PROVE  ~Older(c, a)
<1> SUFFICES ASSUME Older(c, a) PROVE FALSE
  OBVIOUS
<1>1. PICK i \in DOMAIN c \cup DOMAIN a :
        /\ PartAt(c, i) < PartAt(a, i)
        /\ \A j \in 1..(i - 1) : PartAt(c, j) = PartAt(a, j)
  BY DEF Older
<1>2. i \in Nat \ {0}
  BY LenProperties
<1>3. \A j \in Nat : PartAt(a, j) \in Nat /\ PartAt(b, j) \in Nat /\ PartAt(c, j) \in Nat
  BY PartIsNumber
<1> DEFINE Differ == {k \in Nat : k \in 1..i /\ PartAt(b, k) # PartAt(c, k)}
<1>4. ASSUME Differ # {} PROVE FALSE
  <2>1. PICK k \in Differ : \A j \in Differ : k <= j
    BY <1>4, LeastNatural
  <2>2. k \in Nat \ {0} /\ k \in 1..i /\ PartAt(b, k) # PartAt(c, k)
    BY <2>1
  <2>3. \A j \in 1..(k - 1) : PartAt(b, j) = PartAt(c, j)
    <3> SUFFICES ASSUME NEW j \in 1..(k - 1) PROVE PartAt(b, j) = PartAt(c, j)
      OBVIOUS
    <3>1. j \in Nat /\ j \in 1..i /\ ~(k <= j)
      BY <1>2, <2>2
    <3>2. j \notin Differ
      <4> HIDE DEF Differ
      <4> QED
        BY <2>1, <3>1
    <3> QED
      BY <3>1, <3>2
  <2> HIDE DEF Differ
  <2>4. ~(PartAt(c, k) < PartAt(b, k))
    <3>1. \A j \in 1..(k - 1) : PartAt(c, j) = PartAt(b, j)
      BY <2>3
    <3> QED
      BY <2>2, <3>1, OlderAt
  <2>5. PartAt(b, k) < PartAt(c, k)
    BY <1>3, <2>2, <2>4
  <2>6. PartAt(c, k) <= PartAt(a, k) /\ \A j \in 1..(k - 1) : PartAt(c, j) = PartAt(a, j)
    <3>1. CASE k = i
      BY <1>1, <1>2, <1>3, <3>1
    <3>2. CASE k # i
      <4>1. k \in 1..(i - 1) /\ \A j \in 1..(k - 1) : j \in 1..(i - 1)
        BY <1>2, <2>2, <3>2
      <4>2. PartAt(c, k) = PartAt(a, k)
        BY <1>1, <4>1
      <4>3. PartAt(c, k) <= PartAt(a, k)
        BY <1>3, <2>2, <4>2
      <4>4. \A j \in 1..(k - 1) : PartAt(c, j) = PartAt(a, j)
        BY <1>1, <4>1
      <4> QED
        BY <4>3, <4>4
    <3> QED
      BY <3>1, <3>2
  <2>7. PartAt(b, k) < PartAt(a, k) /\ \A j \in 1..(k - 1) : PartAt(b, j) = PartAt(a, j)
    <3>1. PartAt(b, k) < PartAt(a, k)
      BY <1>3, <2>2, <2>5, <2>6
    <3>2. \A j \in 1..(k - 1) : PartAt(b, j) = PartAt(a, j)
      BY <2>3, <2>6
    <3> QED
      BY <3>1, <3>2
  <2> QED
    BY <2>2, <2>7, OlderAt
<1>5. \A j \in 1..i : PartAt(b, j) = PartAt(c, j)
  <2> SUFFICES ASSUME NEW j \in 1..i PROVE PartAt(b, j) = PartAt(c, j)
    OBVIOUS
  <2>1. j \in Nat
    BY <1>2
  <2>2. j \notin Differ
    <3> HIDE DEF Differ
    <3> QED
      BY <1>4
  <2> QED
    BY <2>1, <2>2
<1>6. PartAt(b, i) < PartAt(a, i) /\ \A j \in 1..(i - 1) : PartAt(b, j) = PartAt(a, j)
  <2>1. i \in 1..i /\ \A j \in 1..(i - 1) : j \in 1..i
    BY <1>2
  <2>2. PartAt(b, i) = PartAt(c, i)
    BY <1>5, <2>1
  <2>3. \A j \in 1..(i - 1) : PartAt(b, j) = PartAt(a, j)
    BY <1>1, <1>5, <2>1
  <2> QED
    BY <1>1, <2>2, <2>3
<1> QED
  BY <1>2, <1>6, OlderAt

\* What the comparison sees of the installed version is no older than what it saw of
\* each one before.
ReleaseInv ==
  /\ installed \in [version : Versions, platform : Platforms]
  /\ past \subseteq Versions
  /\ \A version \in past : ~IsVersionOlder(installed.version, version)

\* An update keeps that.
LEMMA ReleaseInvStep ==
  ASSUME Versions \subseteq Seq(Nat), ReleaseInv, InstallRelease
  PROVE  ReleaseInv'
<1>1. PICK manifest \in Manifests :
        /\ ~IsVersionOlder(manifest.version, installed.version)
        /\ installed' = [installed EXCEPT !.version = manifest.version]
        /\ past' = past \cup {installed.version}
  BY DEF InstallRelease
<1> DEFINE new == manifest.version
           old == installed.version
<1>2. /\ new \in Versions /\ old \in Versions /\ installed'.version = new
      /\ installed' \in [version : Versions, platform : Platforms]
  BY <1>1 DEF Manifests, ReleaseInv
<1>3. Numbers(new) \in Seq(Nat) /\ Numbers(old) \in Seq(Nat)
  BY <1>2, NumbersAreNumbers
<1> HIDE DEF new, old
<1>4. ASSUME NEW version \in past PROVE ~IsVersionOlder(new, version)
  <2>1. Numbers(version) \in Seq(Nat)
    BY NumbersAreNumbers DEF ReleaseInv
  <2>2. ~Older(Numbers(old), Numbers(version)) /\ ~Older(Numbers(new), Numbers(old))
    BY <1>1 DEF ReleaseInv, IsVersionOlder, new, old
  <2> QED
    BY <1>3, <2>1, <2>2, NotOlderTransitive DEF IsVersionOlder
<1>5. past' = past \cup {old} /\ ~IsVersionOlder(new, old)
  BY <1>1 DEF new, old
<1> QED
  BY <1>2, <1>4, <1>5 DEF ReleaseInv

\* For versions of any text and any length: an update, and so a sequence of updates,
\* never brings back a version older than one that was installed before, when both
\* are all numbers, whatever was installed in between.
THEOREM UpdatesNeverGoBack ==
  ASSUME MaxNumber \in Nat, Versions \subseteq Seq(Nat)
  PROVE  ReleaseSpec => []InstalledNeverGoesBack
<1>1. ReleaseInit => ReleaseInv
  BY DEF ReleaseInit, ReleaseInv
<1>2. ReleaseInv /\ [InstallRelease]_releaseVars => ReleaseInv'
  <2>1. CASE UNCHANGED releaseVars
    BY <2>1 DEF releaseVars, ReleaseInv
  <2> QED
    BY <2>1, ReleaseInvStep
<1>3. ReleaseInv => InstalledNeverGoesBack
  <2> SUFFICES ASSUME ReleaseInv, NEW version \in past,
                      WellFormed(version), WellFormed(installed.version)
               PROVE  ~Older(installed.version, version)
    BY DEF InstalledNeverGoesBack
  <2>1. version \in Seq(Nat) /\ installed.version \in Seq(Nat)
    BY DEF ReleaseInv
  <2>2. ASSUME NEW v \in Seq(Nat), WellFormed(v) PROVE Numbers(v) = v
    <3>1. \A i \in 1..Len(v) : v[i] \in 0..MaxNumber
      BY <2>2, LenProperties, ElementOfSeq DEF WellFormed
    <3>2. v \in Seq(0..MaxNumber)
      BY <3>1, SeqDef, LenProperties
    <3> QED
      BY <3>2, NumbersAreKept
  <2> QED
    BY <2>1, <2>2 DEF ReleaseInv, IsVersionOlder
<1> QED
  BY <1>1, <1>2, <1>3, PTL DEF ReleaseSpec
=================================================================================
