---------------------------- MODULE ShellProofs -----------------------------
(***************************************************************************)
(* Theorems about the frame of the web application: its furniture, sign-in *)
(* and organizations, the overview and the period picker, for any tabs,    *)
(* people, organizations and values and any answers, late or wrong.        *)
(***************************************************************************)
EXTENDS MCWebPages, FiniteSetTheorems, SequenceTheorems, WellFoundedInduction, TLAPS

-----------------------------------------------------------------------------
(* The chrome: paths                                                       *)

LEMMA PathsAre ==
  /\ Path(<<>>) = <<"dashboard">>
  /\ \A a : Path(<<a>>) = <<"dashboard", a>>
  /\ \A a, b : Path(<<a, b>>) = <<"dashboard", a, b>>
<1>1. <<"dashboard">> \o <<>> = <<"dashboard">>
  <2>1. <<"dashboard">> \in Seq({"dashboard"})
    OBVIOUS
  <2> QED
    BY <2>1, ConcatEmptySeq
<1>2. ASSUME NEW a PROVE <<"dashboard">> \o <<a>> = <<"dashboard", a>>
  <2> DEFINE S == {"dashboard", a}
  <2>1. <<"dashboard">> \in Seq(S) /\ <<a>> \in Seq(S) /\ <<"dashboard", a>> \in Seq(S)
    OBVIOUS
  <2> HIDE DEF S
  <2> DEFINE s == <<"dashboard">> \o <<a>>
  <2>2. /\ s \in Seq(S) /\ Len(s) = 2
        /\ \A i \in 1..2 : s[i] = IF i <= 1 THEN <<"dashboard">>[i] ELSE <<a>>[i - 1]
    BY <2>1, ConcatProperties
  <2>3. s[1] = "dashboard" /\ s[2] = a
    BY <2>2
  <2> HIDE DEF s
  <2>4. \A i \in 1..Len(s) : s[i] = <<"dashboard", a>>[i]
    BY <2>2, <2>3
  <2>5. Len(s) = Len(<<"dashboard", a>>)
    BY <2>2
  <2>6. s = <<"dashboard", a>>
    BY <2>1, <2>2, <2>4, <2>5, SeqEqual
  <2> QED
    BY <2>6 DEF s
<1>3. ASSUME NEW a, NEW b PROVE <<"dashboard">> \o <<a, b>> = <<"dashboard", a, b>>
  <2> DEFINE S == {"dashboard", a, b}
  <2>1. <<"dashboard">> \in Seq(S) /\ <<a, b>> \in Seq(S) /\ <<"dashboard", a, b>> \in Seq(S)
    OBVIOUS
  <2> HIDE DEF S
  <2> DEFINE s == <<"dashboard">> \o <<a, b>>
  <2>2. /\ s \in Seq(S) /\ Len(s) = 3
        /\ \A i \in 1..3 : s[i] = IF i <= 1 THEN <<"dashboard">>[i] ELSE <<a, b>>[i - 1]
    BY <2>1, ConcatProperties
  <2>3. s[1] = "dashboard" /\ s[2] = a /\ s[3] = b
    BY <2>2
  <2> HIDE DEF s
  <2>4. \A i \in 1..Len(s) : s[i] = <<"dashboard", a, b>>[i]
    BY <2>2, <2>3
  <2>5. Len(s) = Len(<<"dashboard", a, b>>)
    BY <2>2
  <2>6. s = <<"dashboard", a, b>>
    BY <2>1, <2>2, <2>4, <2>5, SeqEqual
  <2> QED
    BY <2>6 DEF s
<1> QED
  BY <1>1, <1>2, <1>3 DEF Path

\* What is below the company page has its name second, and more segments.
LEMMA BelowCompany ==
  ASSUME NEW p, Under(p, Company)
  PROVE  2 < Len(p) /\ p[2] = "company"
<1>1. Company = <<"dashboard", "company">> /\ Len(Company) = 2
  BY PathsAre DEF Company
<1>2. /\ SubSeq(p, 1, 2) = <<"dashboard", "company">> /\ 2 < Len(p)
  BY <1>1 DEF Under
<1>3. SubSeq(p, 1, 2)[2] = p[2]
  <2>1. \A i \in 1..2 : p[i] \in {p[1], p[2]}
    OBVIOUS
  <2>2. \A i \in 1..(2 - 1 + 1) : SubSeq(p, 1, 2)[i] = p[1 + i - 1]
    BY <2>1, SubSeqProperties
  <2>3. 2 \in 1..(2 - 1 + 1) /\ 1 + 2 - 1 = 2
    OBVIOUS
  <2> QED
    BY <2>2, <2>3
<1>4. <<"dashboard", "company">>[2] = "company"
  OBVIOUS
<1> QED
  BY <1>2, <1>3, <1>4, Zenon

Hrefs ==
  {<<"dashboard">>, <<"dashboard", "transactions">>, <<"dashboard", "imports">>,
   <<"dashboard", "accounts">>, <<"dashboard", "reports">>, <<"dashboard", "company">>,
   <<"dashboard", "company", "ratios">>, <<"dashboard", "taxes">>,
   <<"dashboard", "categories">>, <<"dashboard", "settings">>}

LEMMA HrefsAre == {r.href : r \in Routes} = Hrefs
<1>1. DOMAIN NavRoutes = 1..10
  BY DEF NavRoutes
<1>2. {r.href : r \in Routes} = {NavRoutes[i].href : i \in 1..10}
  BY <1>1 DEF Routes
<1>3. /\ NavRoutes[1].href = <<"dashboard">> /\ NavRoutes[2].href = <<"dashboard", "transactions">>
      /\ NavRoutes[3].href = <<"dashboard", "imports">>
      /\ NavRoutes[4].href = <<"dashboard", "accounts">>
      /\ NavRoutes[5].href = <<"dashboard", "reports">>
      /\ NavRoutes[6].href = <<"dashboard", "company">>
      /\ NavRoutes[7].href = <<"dashboard", "company", "ratios">>
      /\ NavRoutes[8].href = <<"dashboard", "taxes">>
      /\ NavRoutes[9].href = <<"dashboard", "categories">>
      /\ NavRoutes[10].href = <<"dashboard", "settings">>
  BY PathsAre DEF NavRoutes, Route
<1>4. \A i \in 1..10 : i \in {1, 2, 3, 4, 5, 6, 7, 8, 9, 10}
  OBVIOUS
<1>5. {NavRoutes[i].href : i \in 1..10} \subseteq Hrefs
  BY <1>3, <1>4 DEF Hrefs
<1>6. \A h \in Hrefs : \E i \in 1..10 : NavRoutes[i].href = h
  BY <1>3 DEF Hrefs
<1> QED
  BY <1>2, <1>5, <1>6

\* The paths of the palette's items.
ItemPaths == Hrefs \cup {<<"dashboard", "taxes", "file">>}

LEMMA ActionsLead ==
  ASSUME NEW kind, NEW i \in DOMAIN ActionPaths(kind)
  PROVE  /\ ActionPaths(kind)[i] \in ItemPaths
         /\ IsFiniteSet(DOMAIN ActionPaths(kind))
<1> DEFINE A == <<Path(<<"transactions">>), Imports>>
           B == IF kind = "company" THEN <<Company>> ELSE <<>>
           C == <<Path(<<"categories">>), Path(<<"reports">>), Path(<<"accounts">>),
                  Path(<<"taxes", "file">>)>>
<1>1. A \in Seq(ItemPaths) /\ B \in Seq(ItemPaths) /\ C \in Seq(ItemPaths)
  <2>1. A = <<<<"dashboard", "transactions">>, <<"dashboard", "imports">>>>
    BY PathsAre DEF Imports
  <2>2. B = <<<<"dashboard", "company">>>> \/ B = <<>>
    BY PathsAre DEF Company
  <2>3. C = <<<<"dashboard", "categories">>, <<"dashboard", "reports">>,
              <<"dashboard", "accounts">>, <<"dashboard", "taxes", "file">>>>
    BY PathsAre
  <2>4. /\ <<"dashboard", "transactions">> \in ItemPaths /\ <<"dashboard", "imports">> \in ItemPaths
        /\ <<"dashboard", "company">> \in ItemPaths
        /\ <<"dashboard", "categories">> \in ItemPaths /\ <<"dashboard", "reports">> \in ItemPaths
        /\ <<"dashboard", "accounts">> \in ItemPaths
        /\ <<"dashboard", "taxes", "file">> \in ItemPaths
    BY DEF ItemPaths, Hrefs
  <2> HIDE DEF A, B, C
  <2>5. A \in Seq(ItemPaths)
    BY <2>1, <2>4
  <2>6. B \in Seq(ItemPaths)
    <3>1. CASE B = <<>>
      BY <3>1
    <3>2. CASE B = <<<<"dashboard", "company">>>>
      BY <2>4, <3>2
    <3> QED
      BY <2>2, <3>1, <3>2
  <2>7. C \in Seq(ItemPaths)
    BY <2>3, <2>4
  <2> QED
    BY <2>5, <2>6, <2>7
<1>2. ActionPaths(kind) = (A \o B) \o C
  BY DEF ActionPaths
<1> HIDE DEF A, B, C
<1>3. (A \o B) \o C \in Seq(ItemPaths)
  BY <1>1, ConcatProperties
<1>4. DOMAIN ActionPaths(kind) = 1..Len(ActionPaths(kind)) /\ Len(ActionPaths(kind)) \in Nat
  BY <1>2, <1>3
<1>5. IsFiniteSet(1..Len(ActionPaths(kind)))
  BY <1>4, FS_Interval
<1> QED
  BY <1>2, <1>3, <1>4, <1>5

LEMMA ItemsLead ==
  ASSUME NEW kind, NEW s \in Shown(kind)
  PROVE  s[2].path \in ItemPaths
<1>1. CASE \E i \in DOMAIN ActionPaths(kind) : s = <<i, ActionItem(i, kind)>>
  BY <1>1, ActionsLead DEF ActionItem
<1>2. CASE \E i \in DOMAIN NavRoutes : s = <<100 + i, PlaceItem(NavRoutes[i])>>
  <2>1. PICK i \in DOMAIN NavRoutes : s = <<100 + i, PlaceItem(NavRoutes[i])>>
    BY <1>2
  <2>2. s[2].path = NavRoutes[i].href /\ NavRoutes[i] \in Routes
    BY <2>1 DEF PlaceItem, Routes
  <2> QED
    BY <2>2, HrefsAre DEF ItemPaths
<1> QED
  BY <1>1, <1>2 DEF Shown

LEMMA FiniteImage ==
  ASSUME NEW S, IsFiniteSet(S), NEW f, DOMAIN f = S
  PROVE  IsFiniteSet({f[x] : x \in S})
<1> DEFINE T == {f[x] : x \in S}
           g == [x \in S |-> f[x]]
<1>1. g \in [S -> T] /\ \A t \in T : \E x \in S : g[x] = t
  OBVIOUS
<1>2. g \in Surjection(S, T)
  BY <1>1 DEF Surjection
<1> QED
  BY <1>2, FS_Surjection

LEMMA ShownIsFinite == ASSUME NEW kind PROVE IsFiniteSet(Shown(kind))
<1> DEFINE P == {j \in DOMAIN NavRoutes : NavRoutes[j] \in ForKind(kind, Routes)}
           D == DOMAIN ActionPaths(kind)
           A == [i \in D |-> <<i, ActionItem(i, kind)>>]
           B == [i \in P |-> <<100 + i, PlaceItem(NavRoutes[i])>>]
<1>1. IsFiniteSet(D)
  <2>1. CASE D = {}
    BY <2>1, FS_EmptySet
  <2>2. CASE D # {}
    BY <2>2, ActionsLead
  <2> QED
    BY <2>1, <2>2
<1>2. IsFiniteSet(P)
  <2>1. DOMAIN NavRoutes = 1..10
    BY DEF NavRoutes
  <2>2. IsFiniteSet(1..10)
    <3>1. 1 \in Int /\ 10 \in Int
      OBVIOUS
    <3> QED
      BY <3>1, FS_Interval, Zenon
  <2>3. P \subseteq 1..10
    BY <2>1
  <2> QED
    BY <2>2, <2>3, FS_Subset
<1>3. Shown(kind) = {A[i] : i \in D} \cup {B[i] : i \in P}
  BY DEF Shown
<1>4. DOMAIN A = D /\ DOMAIN B = P
  OBVIOUS
<1> HIDE DEF A, B, D, P
<1>5. IsFiniteSet({A[i] : i \in D}) /\ IsFiniteSet({B[i] : i \in P})
  BY <1>1, <1>2, <1>4, FiniteImage
<1> QED
  BY <1>3, <1>5, FS_Union

LEMMA CountsFiltered ==
  ASSUME NEW kind, NEW q PROVE Cardinality(Filtered(kind, q)) \in Nat
<1>1. IsFiniteSet(Filtered(kind, q))
  BY ShownIsFinite, FS_Subset DEF Filtered
<1> QED
  BY <1>1, FS_CardinalityType

\* Below the company page there are its ratios and the statements.
LEMMA CompanysPlaces ==
  /\ Company \in Hrefs /\ Ratios \in Hrefs /\ Imports \in Hrefs /\ Path(<<>>) \in Hrefs
  /\ \A p \in ItemPaths : AtOrUnder(p, Company) => p \in {Company, Ratios}
  /\ ~ AtOrUnder(Onboarding, Company) /\ ~ AtOrUnder(Imports, Company)
  /\ ~ AtOrUnder(Path(<<>>), Company)
  /\ Onboarding \notin {Company, Ratios}
<1>1. /\ Company = <<"dashboard", "company">> /\ Imports = <<"dashboard", "imports">>
      /\ Ratios = <<"dashboard", "company", "ratios">> /\ Path(<<>>) = <<"dashboard">>
      /\ Onboarding = <<"onboarding">>
  BY PathsAre DEF Company, Imports, Ratios, Onboarding
<1>2. ASSUME NEW p \in ItemPaths, Under(p, Company) PROVE p \in {Company, Ratios}
  <2>1. 2 < Len(p) /\ p[2] = "company"
    BY <1>2, BelowCompany
  <2>2. p \in {<<"dashboard", "company", "ratios">>, <<"dashboard", "taxes", "file">>}
    <3>1. /\ Len(<<"dashboard">>) = 1 /\ ~ (2 < 1) /\ ~ (2 < 2)
          /\ \A x : Len(<<"dashboard", x>>) = 2
      OBVIOUS
    <3>2. p # <<"dashboard">> /\ \A x : p # <<"dashboard", x>>
      BY <2>1, <3>1, Zenon
    <3> QED
      BY <3>2 DEF ItemPaths, Hrefs
  <2>3. p # <<"dashboard", "taxes", "file">>
    BY <2>1
  <2> QED
    BY <1>1, <2>2, <2>3
<1>3. ~ Under(<<"onboarding">>, Company) /\ ~ Under(<<"dashboard", "imports">>, Company)
      /\ ~ Under(<<"dashboard">>, Company)
  BY BelowCompany
<1> QED
  BY <1>1, <1>2, <1>3 DEF AtOrUnder, Hrefs

LEMMA PathsOfAll ==
  /\ Hrefs \subseteq Paths /\ ItemPaths \subseteq Paths /\ Onboarding \in Paths
  /\ \A id \in StatementIds : StatementPath(id) \in Paths
<1>1. Path(<<"taxes", "file">>) = <<"dashboard", "taxes", "file">>
  BY PathsAre
<1> QED
  BY <1>1, HrefsAre DEF Paths, ItemPaths

-----------------------------------------------------------------------------
(* The chrome's invariant                                                  *)

OnTheWay == {<<>>} \cup {<<p>> : p \in Paths}

\* A statement is only on its way in a company, from a company page, unless
\* a late answer asked for it or an address was typed.
StatementsAreAskedFor ==
  onward # <<>> /\ AtOrUnder(onward[1], Company) /\ onward[1] \notin {Company, Ratios} =>
    astray \/ (orgKind = "company" /\ AtOrUnder(pathname, Company))

ChromeInv ==
  /\ ShellChromeTypeOK /\ DrawerIsAPhones /\ ClosedIsFresh /\ RailIsRemembered
  /\ PersonalLeavesCompany /\ StatementsAreAskedFor

RailTyped(r) ==
  r \in [stored : BOOLEAN, collapsed : BOOLEAN, mobile : BOOLEAN, drawer : BOOLEAN,
         foreign : BOOLEAN]

PaletteTyped(p) ==
  /\ p \in [open : BOOLEAN, query : SUBSET AllItems, index : Int] /\ p.index >= -1
  /\ ~ p.open => p = Closed

\* What the rail, the switchers and the palette say together.
LayersInv ==
  /\ RailTyped(rail) /\ menus \subseteq {"rail", "drawer"} /\ PaletteTyped(palette)
  /\ DrawerIsAPhones /\ RailIsRemembered

\* What the path, the one asked for and the organization say together.
WaysInv ==
  /\ pathname \in Paths /\ onward \in OnTheWay /\ orgKind \in {"personal", "company"}
  /\ uploading \in BOOLEAN /\ astray \in BOOLEAN
  /\ PersonalLeavesCompany /\ StatementsAreAskedFor

LEMMA ChromeParts == ChromeInv <=> LayersInv /\ WaysInv
  BY DEF ChromeInv, LayersInv, WaysInv, ShellChromeTypeOK, RailTyped, PaletteTyped, ClosedIsFresh,
         OnTheWay

LEMMA ClosedTyped == PaletteTyped(Closed)
  BY DEF PaletteTyped, Closed

LEMMA DrawerCloses ==
  ASSUME LayersInv
  PROVE  LET r == [rail EXCEPT !.drawer = FALSE]
         IN /\ RailTyped(r) /\ ~ r.drawer /\ r.mobile = rail.mobile /\ r.foreign = rail.foreign
            /\ r.collapsed = rail.collapsed /\ r.stored = rail.stored
  BY DEF LayersInv, RailTyped

\* Steps that close the drawer with its switcher, at least.
LEMMA ClosingKeepsLayers ==
  ASSUME LayersInv, rail' = [rail EXCEPT !.drawer = FALSE], menus' \subseteq menus \ {"drawer"},
         PaletteTyped(palette')
  PROVE  LayersInv'
  BY DrawerCloses DEF LayersInv, DrawerIsAPhones, RailIsRemembered

LEMMA GoneKeepsLayers == LayersInv /\ Gone => LayersInv'
  BY ClosingKeepsLayers, ClosedTyped DEF Gone

LEMMA EnterIsFresh ==
  ASSUME LayersInv, NEW path, NEW kind, Enter(path, kind)
  PROVE  LayersInv'
<1>1. /\ rail' = [rail EXCEPT !.collapsed = rail.stored, !.drawer = FALSE, !.foreign = FALSE]
      /\ menus' = {} /\ palette' = Closed
  BY DEF Enter
<1>2. RailTyped(rail') /\ ~ rail'.drawer /\ rail'.collapsed = rail'.stored
  BY <1>1 DEF LayersInv, RailTyped
<1> QED
  BY <1>1, <1>2, ClosedTyped DEF LayersInv, DrawerIsAPhones, RailIsRemembered

LEMMA LayersUntouched ==
  LayersInv /\ UNCHANGED <<rail, menus, palette>> => LayersInv'
  BY DEF LayersInv, DrawerIsAPhones, RailIsRemembered

LEMMA LayersStart == ShellChromeInit => LayersInv
  BY ClosedTyped DEF ShellChromeInit, LayersInv, RailTyped, DrawerIsAPhones, RailIsRemembered

LEMMA LayersNext == LayersInv /\ [ShellChromeNext]_chromeVars => LayersInv'
<1> SUFFICES ASSUME LayersInv, [ShellChromeNext]_chromeVars PROVE LayersInv'
  OBVIOUS
<1>t. /\ RailTyped(rail) /\ menus \subseteq {"rail", "drawer"} /\ PaletteTyped(palette)
      /\ DrawerIsAPhones /\ RailIsRemembered
  BY DEF LayersInv
<1>1. CASE Land
  BY <1>1, EnterIsFresh, GoneKeepsLayers, LayersUntouched DEF Land
<1>2. CASE ComeIn
  BY <1>2, EnterIsFresh DEF ComeIn
<1>3. CASE AddressBar
  BY <1>3, EnterIsFresh DEF AddressBar
<1>4. CASE Resize
  <2>1. /\ rail' = [rail EXCEPT !.mobile = ~ @, !.drawer = FALSE]
        /\ menus' = menus \ {"drawer"} /\ palette' = palette
    BY <1>4 DEF Resize
  <2>2. /\ RailTyped(rail') /\ ~ rail'.drawer /\ rail'.collapsed = rail.collapsed
        /\ rail'.stored = rail.stored /\ rail'.foreign = rail.foreign
    BY <1>t, <2>1 DEF RailTyped
  <2> QED
    BY <1>t, <2>1, <2>2 DEF LayersInv, DrawerIsAPhones, RailIsRemembered
<1>5. CASE OnCollapsedChange
  <2>1. /\ ~ rail.drawer /\ menus' \subseteq menus /\ palette' = palette
        /\ rail' = IF rail.mobile THEN [rail EXCEPT !.drawer = TRUE]
                   ELSE [rail EXCEPT !.collapsed = ~ @, !.stored = ~ rail.collapsed,
                                     !.foreign = FALSE]
    BY <1>5 DEF OnCollapsedChange, PressOutside
  <2>2. "drawer" \notin menus'
    BY <1>t, <2>1 DEF DrawerIsAPhones
  <2>3. CASE rail.mobile
    <3>1. /\ RailTyped(rail') /\ rail'.mobile /\ rail'.collapsed = rail.collapsed
          /\ rail'.stored = rail.stored /\ rail'.foreign = rail.foreign
      BY <1>t, <2>1, <2>3 DEF RailTyped
    <3> QED
      BY <1>t, <2>1, <2>2, <3>1 DEF LayersInv, DrawerIsAPhones, RailIsRemembered
  <2>4. CASE ~ rail.mobile
    <3>1. /\ RailTyped(rail') /\ ~ rail'.drawer /\ rail'.collapsed = rail'.stored
      BY <1>t, <2>1, <2>4 DEF RailTyped
    <3> QED
      BY <1>t, <2>1, <2>2, <3>1 DEF LayersInv, DrawerIsAPhones, RailIsRemembered
  <2> QED
    BY <2>3, <2>4
<1>6. CASE CollapsedElsewhere
  <2>1. /\ rail' = [rail EXCEPT !.stored = ~ @, !.foreign = TRUE]
        /\ menus' = menus /\ palette' = palette
    BY <1>6 DEF CollapsedElsewhere
  <2>2. /\ RailTyped(rail') /\ rail'.drawer = rail.drawer /\ rail'.mobile = rail.mobile
        /\ rail'.foreign
    BY <1>t, <2>1 DEF RailTyped
  <2> QED
    BY <1>t, <2>1, <2>2 DEF LayersInv, DrawerIsAPhones, RailIsRemembered
<1>7. ASSUME CloseDrawer, palette' = palette PROVE LayersInv'
  BY <1>t, <1>7, ClosingKeepsLayers DEF CloseDrawer
<1>8. CASE NavClick
  BY <1>7, <1>8 DEF NavClick
<1>9. CASE ScrimTap
  BY <1>7, <1>9 DEF ScrimTap
<1>10. CASE OnCreate
  BY <1>7, <1>10 DEF OnCreate
<1>11. CASE ToggleSwitcher
  <2>1. rail' = rail /\ palette' = palette /\ menus' \subseteq menus \cup {Reached}
    BY <1>11 DEF ToggleSwitcher
  <2>2. Reached \in {"rail", "drawer"} /\ (Reached = "drawer" => rail.drawer)
    BY DEF Reached
  <2> QED
    BY <1>t, <2>1, <2>2 DEF LayersInv, DrawerIsAPhones, RailIsRemembered
<1>12. CASE PickOrg
  BY <1>t, <1>12 DEF PickOrg, LayersInv, DrawerIsAPhones, RailIsRemembered
<1>13. CASE EndSession
  BY <1>13, GoneKeepsLayers DEF EndSession
<1>14. CASE CommandK
  <2>1. [palette EXCEPT !.open = TRUE] \in [open : BOOLEAN, query : SUBSET AllItems, index : Int]
        /\ [palette EXCEPT !.open = TRUE].open
        /\ [palette EXCEPT !.open = TRUE].index = palette.index
    BY <1>t DEF PaletteTyped
  <2>2. PaletteTyped([palette EXCEPT !.open = TRUE])
    BY <1>t, <2>1 DEF PaletteTyped
  <2> QED
    BY <1>t, <1>14, <2>2, ClosedTyped DEF CommandK, LayersInv, DrawerIsAPhones, RailIsRemembered
<1>15. CASE Escape
  BY <1>15, ClosingKeepsLayers, ClosedTyped DEF Escape
<1>16. ASSUME NEW q \in SUBSET AllItems, NEW i \in Int, i >= -1, palette.open,
              palette' \in {[palette EXCEPT !.query = q, !.index = i],
                            [palette EXCEPT !.index = i]},
              rail' = rail, menus' = menus
       PROVE  LayersInv'
  <2>1. palette' \in [open : BOOLEAN, query : SUBSET AllItems, index : Int]
        /\ palette'.open /\ palette'.index = i
    BY <1>t, <1>16 DEF PaletteTyped
  <2>2. PaletteTyped(palette')
    BY <1>16, <2>1 DEF PaletteTyped
  <2> QED
    BY <1>t, <1>16, <2>2 DEF LayersInv, DrawerIsAPhones, RailIsRemembered
<1>17. CASE TypeQuery
  <2>1. PICK q \in Queries \cup {AllItems} : palette' = [palette EXCEPT !.query = q, !.index = 0]
    BY <1>17 DEF TypeQuery
  <2>2. q \in SUBSET AllItems
    BY ShellChromeAssumption
  <2>3. palette.open /\ rail' = rail /\ menus' = menus
    BY <1>17 DEF TypeQuery, PaletteInUse
  <2>4. 0 \in Int /\ 0 >= -1
    OBVIOUS
  <2> QED
    BY <1>16, <2>1, <2>2, <2>3, <2>4
<1>18. CASE Highlight
  <2> DEFINE last == Cardinality(Filtered(orgKind, palette.query)) - 1
  <2>1. last \in Int /\ last >= -1
    BY CountsFiltered
  <2>2. palette.index \in Int /\ palette.index >= -1
    BY <1>t DEF PaletteTyped
  <2>3. PICK i \in 0..last \cup {IF last < palette.index + 1 THEN last ELSE palette.index + 1,
                             IF palette.index - 1 < 0 THEN 0 ELSE palette.index - 1} :
          palette' = [palette EXCEPT !.index = i]
    BY <1>18 DEF Highlight
  <2> HIDE DEF last
  <2>4. i \in Int /\ i >= -1
    BY <2>1, <2>2, <2>3
  <2> QED
    BY <1>16, <1>18, <2>3, <2>4 DEF Highlight, PaletteInUse
<1>19. CASE RunHighlighted
  BY <1>t, <1>19, ClosedTyped DEF RunHighlighted, LayersInv, DrawerIsAPhones, RailIsRemembered
<1>20. CASE GoToStatement \/ UploadStatement \/ StatementUploaded \/ UploadFails
  BY <1>20, LayersUntouched DEF GoToStatement, UploadStatement, StatementUploaded, UploadFails
<1>21. CASE UNCHANGED chromeVars
  BY <1>21, LayersUntouched DEF chromeVars
<1> QED
  BY <1>1, <1>2, <1>3, <1>4, <1>5, <1>6, <1>8, <1>9, <1>10, <1>11, <1>12, <1>13, <1>14, <1>15,
     <1>17, <1>18, <1>19, <1>20, <1>21 DEF ShellChromeNext

-----------------------------------------------------------------------------
(* Where the ways lead                                                     *)

LEMMA OneOnTheWay == ASSUME NEW p \in Paths PROVE <<p>> \in OnTheWay /\ <<p>> # <<>> /\ <<p>>[1] = p
  BY DEF OnTheWay

LEMMA WhatIsOnTheWay ==
  ASSUME NEW w \in OnTheWay, w # <<>> PROVE w[1] \in Paths /\ w = <<w[1]>>
  BY DEF OnTheWay

\* Asked for one of the navigation's or the palette's paths, or a company's.
LEMMA AskedForAPlace ==
  ASSUME WaysInv, NEW p \in ItemPaths \cup {Onboarding}, Go(p),
         UNCHANGED <<pathname, orgKind, uploading, astray>>
  PROVE  WaysInv'
<1>1. onward' = <<p>> /\ p \in Paths /\ (AtOrUnder(p, Company) => p \in {Company, Ratios})
  BY PathsOfAll, CompanysPlaces DEF Go
<1>2. onward' \in OnTheWay /\ onward' # <<>> /\ onward'[1] = p
  BY <1>1, OneOnTheWay
<1> QED
  BY <1>1, <1>2 DEF WaysInv, PersonalLeavesCompany, StatementsAreAskedFor

LEMMA AskedForAStatement ==
  ASSUME WaysInv, NEW id \in StatementIds, Go(StatementPath(id)), pathname' = pathname,
         orgKind' = orgKind, uploading' \in BOOLEAN, astray' \in BOOLEAN,
         astray' \/ (orgKind = "company" /\ AtOrUnder(pathname, Company))
  PROVE  WaysInv'
<1>1. onward' = <<StatementPath(id)>> /\ StatementPath(id) \in Paths
  BY PathsOfAll DEF Go
<1>2. onward' \in OnTheWay /\ onward' # <<>>
  BY <1>1, OneOnTheWay
<1> QED
  BY <1>2 DEF WaysInv, PersonalLeavesCompany, StatementsAreAskedFor

\* A page that is arrived at: who must be sent away is.
LEMMA ArrivesAt ==
  ASSUME WaysInv, NEW path \in Paths, NEW kind \in {"personal", "company"},
         pathname' = path, orgKind' = kind, uploading' \in BOOLEAN, astray' \in BOOLEAN,
         onward' = IF TurnedAway(kind, path) THEN <<Imports>> ELSE <<>>,
         kind = "personal" /\ AtOrUnder(path, Company) /\ path \notin {Company, Ratios} => astray'
  PROVE  WaysInv'
<1>1. Imports \in Paths /\ ~ AtOrUnder(Imports, Company)
  BY PathsOfAll, CompanysPlaces
<1>2. /\ <<Imports>> \in OnTheWay /\ <<Imports>> # <<>> /\ <<Imports>>[1] = Imports
      /\ <<>> \in OnTheWay
  BY <1>1, OneOnTheWay DEF OnTheWay
<1>3. CASE TurnedAway(kind, path)
  BY <1>1, <1>2, <1>3 DEF WaysInv, PersonalLeavesCompany, StatementsAreAskedFor
<1>4. CASE ~ TurnedAway(kind, path)
  BY <1>1, <1>2, <1>4 DEF WaysInv, PersonalLeavesCompany, StatementsAreAskedFor, TurnedAway
<1> QED
  BY <1>3, <1>4

LEMMA WaysUntouched ==
  ASSUME WaysInv, UNCHANGED <<pathname, onward, orgKind, astray>>, uploading' \in BOOLEAN
  PROVE  WaysInv'
  BY DEF WaysInv, PersonalLeavesCompany, StatementsAreAskedFor

LEMMA OverviewIsNoCompanys ==
  Path(<<>>) \in Paths /\ \A kind : ~ TurnedAway(kind, Path(<<>>))
<1>1. Path(<<>>) \in Paths /\ ~ AtOrUnder(Path(<<>>), Company)
  BY PathsOfAll, CompanysPlaces
<1>2. Path(<<>>) # Company /\ Path(<<>>) # Ratios
  <2>1. Path(<<>>) = <<"dashboard">> /\ Company = <<"dashboard", "company">>
        /\ Ratios = <<"dashboard", "company", "ratios">>
    BY PathsAre DEF Company, Ratios
  <2> QED
    BY <2>1
<1> QED
  BY <1>1, <1>2 DEF TurnedAway

LEMMA WaysStart == ShellChromeInit => WaysInv
  BY OverviewIsNoCompanys, CompanysPlaces
     DEF ShellChromeInit, WaysInv, OnTheWay, PersonalLeavesCompany, StatementsAreAskedFor

LEMMA WaysNext == WaysInv /\ [ShellChromeNext]_chromeVars => WaysInv'
<1> SUFFICES ASSUME WaysInv, [ShellChromeNext]_chromeVars PROVE WaysInv'
  OBVIOUS
<1>t. /\ pathname \in Paths /\ onward \in OnTheWay /\ orgKind \in {"personal", "company"}
      /\ uploading \in BOOLEAN /\ astray \in BOOLEAN
      /\ PersonalLeavesCompany /\ StatementsAreAskedFor
  BY DEF WaysInv
<1>1. CASE Land
  <2>1. /\ onward # <<>> /\ onward[1] \in Paths
        /\ pathname' = onward[1] /\ orgKind' = orgKind /\ uploading' = uploading
        /\ onward' = IF TurnedAway(orgKind, onward[1]) THEN <<Imports>> ELSE <<>>
        /\ astray' = (astray /\ AtOrUnder(onward[1], Company))
    BY <1>1, <1>t, WhatIsOnTheWay DEF Land, Enter
  <2>2. astray' \in BOOLEAN
    BY <2>1
  <2>3. orgKind = "personal" /\ AtOrUnder(onward[1], Company) /\ onward[1] \notin {Company, Ratios}
          => astray'
    BY <1>t, <2>1 DEF StatementsAreAskedFor
  <2> QED
    BY <1>t, <2>1, <2>2, <2>3, ArrivesAt
<1>2. CASE ComeIn
  <2>1. PICK kind \in {"personal", "company"} : Enter(Path(<<>>), kind)
    BY <1>2 DEF ComeIn
  <2>2. /\ pathname' = Path(<<>>) /\ orgKind' = kind
        /\ onward' = IF TurnedAway(kind, Path(<<>>)) THEN <<Imports>> ELSE <<>>
        /\ astray' = FALSE /\ uploading' = uploading
    BY <1>2, <2>1 DEF ComeIn, Enter
  <2> QED
    BY <1>t, <2>2, ArrivesAt, OverviewIsNoCompanys, CompanysPlaces
<1>3. CASE AddressBar
  <2>1. PICK id \in StatementIds : Enter(StatementPath(id), orgKind)
    BY <1>3 DEF AddressBar
  <2>2. /\ pathname' = StatementPath(id) /\ orgKind' = orgKind
        /\ onward' = IF TurnedAway(orgKind, StatementPath(id)) THEN <<Imports>> ELSE <<>>
        /\ astray' = TRUE /\ uploading' = FALSE
    BY <1>3, <2>1 DEF AddressBar, Enter
  <2> QED
    BY <1>t, <2>2, ArrivesAt, PathsOfAll
<1>4. CASE Resize \/ OnCollapsedChange \/ CollapsedElsewhere \/ ScrimTap \/ ToggleSwitcher
           \/ CommandK \/ Escape \/ TypeQuery \/ Highlight
  <2>1. UNCHANGED <<pathname, onward, orgKind, astray>> /\ uploading' = uploading
    BY <1>4 DEF Resize, OnCollapsedChange, CollapsedElsewhere, ScrimTap, ToggleSwitcher,
                CommandK, Escape, TypeQuery, Highlight
  <2> QED
    BY <1>t, <2>1, WaysUntouched
<1>5. CASE NavClick
  <2>1. PICK r \in ForKind(orgKind, Routes) : Go(r.href)
    BY <1>5 DEF NavClick
  <2>2. r.href \in ItemPaths
    BY HrefsAre DEF ForKind, ItemPaths
  <2> QED
    BY <1>5, <2>1, <2>2, AskedForAPlace DEF NavClick
<1>6. CASE PickOrg
  <2>1. PICK kind \in {"personal", "company"} :
          /\ orgKind' = kind
          /\ onward' = IF kind = "personal" /\ AtOrUnder(pathname, Company)
                       THEN <<Imports>> ELSE onward
    BY <1>6 DEF PickOrg
  <2>2. pathname' = pathname /\ uploading' = uploading /\ astray' = astray
    BY <1>6 DEF PickOrg
  <2>3. Imports \in Paths /\ ~ AtOrUnder(Imports, Company)
    BY PathsOfAll, CompanysPlaces
  <2>4. CASE kind = "personal" /\ AtOrUnder(pathname, Company)
    <3>1. /\ onward' \in OnTheWay /\ onward' # <<>> /\ onward'[1] = Imports
      BY <2>1, <2>3, <2>4, OneOnTheWay
    <3> QED
      BY <1>t, <2>1, <2>2, <2>3, <3>1 DEF WaysInv, PersonalLeavesCompany, StatementsAreAskedFor
  <2>5. CASE kind = "personal" /\ ~ AtOrUnder(pathname, Company)
    BY <1>t, <2>1, <2>2, <2>5 DEF WaysInv, PersonalLeavesCompany, StatementsAreAskedFor
  <2>6. CASE kind = "company"
    BY <1>t, <2>1, <2>2, <2>6 DEF WaysInv, PersonalLeavesCompany, StatementsAreAskedFor
  <2> QED
    BY <2>4, <2>5, <2>6
<1>7. CASE OnCreate
  BY <1>7, AskedForAPlace DEF OnCreate
<1>8. CASE EndSession
  <2>1. Onboarding \in Paths /\ ~ AtOrUnder(Onboarding, Company)
    BY PathsOfAll, CompanysPlaces
  <2> QED
    BY <1>8, <1>t, <2>1 DEF EndSession, WaysInv, OnTheWay, PersonalLeavesCompany,
                            StatementsAreAskedFor
<1>9. CASE RunHighlighted
  <2>1. PICK s \in Highlighted : Go(s[2].path)
    BY <1>9 DEF RunHighlighted
  <2>2. s[2].path \in ItemPaths
    BY ItemsLead DEF Highlighted, Filtered
  <2> QED
    BY <1>9, <2>1, <2>2, AskedForAPlace DEF RunHighlighted
<1>10. CASE GoToStatement
  <2>1. /\ pathname' = pathname /\ orgKind' = orgKind /\ uploading' = uploading /\ astray' = astray
        /\ orgKind = "company"
    BY <1>10 DEF GoToStatement
  <2>2. CASE pathname = Company /\ \E id \in StatementIds : Go(StatementPath(id))
    BY <1>t, <2>1, <2>2, AskedForAStatement DEF AtOrUnder
  <2>3. CASE Go(Company)
    BY <2>1, <2>3, AskedForAPlace, CompanysPlaces DEF ItemPaths
  <2> QED
    BY <1>10, <2>2, <2>3 DEF GoToStatement
<1>11. CASE UploadStatement \/ UploadFails
  <2>1. UNCHANGED <<pathname, onward, orgKind, astray>> /\ uploading' \in BOOLEAN
    BY <1>11 DEF UploadStatement, UploadFails
  <2> QED
    BY <2>1, WaysUntouched
<1>12. CASE StatementUploaded
  <2> DEFINE there == pathname = Company /\ orgKind = "company"
  <2>1. /\ uploading' = FALSE /\ astray' = (astray \/ ~ there)
        /\ pathname' = pathname /\ orgKind' = orgKind
    BY <1>12 DEF StatementUploaded
  <2>2. PICK id \in StatementIds : Go(StatementPath(id))
    BY <1>12 DEF StatementUploaded
  <2>3. there \in BOOLEAN /\ (there => orgKind = "company" /\ AtOrUnder(pathname, Company))
    BY DEF AtOrUnder
  <2> HIDE DEF there
  <2>4. /\ astray' \in BOOLEAN
        /\ astray' \/ (orgKind = "company" /\ AtOrUnder(pathname, Company))
    BY <1>t, <2>1, <2>3
  <2> QED
    BY <2>1, <2>2, <2>4, AskedForAStatement
<1>13. CASE UNCHANGED chromeVars
  BY <1>13, <1>t, WaysUntouched DEF chromeVars
<1> QED
  BY <1>1, <1>2, <1>3, <1>4, <1>5, <1>6, <1>7, <1>8, <1>9, <1>10, <1>11, <1>12, <1>13
     DEF ShellChromeNext

LEMMA ChromeAlways == ShellChromeSpec => []ChromeInv
<1>1. ShellChromeInit => LayersInv /\ WaysInv
  BY LayersStart, WaysStart
<1>2. LayersInv /\ WaysInv /\ [ShellChromeNext]_chromeVars => (LayersInv /\ WaysInv)'
  BY LayersNext, WaysNext
<1> QED
  BY <1>1, <1>2, ChromeParts, PTL DEF ShellChromeSpec

(* Whose organization is personal is not left on a page of the companies'  *)
(* (DashboardShell.tsx:189-198, CompanyStatementsView.tsx:79-93), except   *)
(* on a statement that a late answer or a typed address led to.            *)
THEOREM NobodyIsLeftThere == ShellChromeSpec => []PersonalLeavesCompany
  BY ChromeAlways, PTL DEF ChromeInv

(* The drawer is a phone's, a closed palette has forgotten its query and a *)
(* phone leaves no trace in the rail (DashboardShell.tsx:161-187,          *)
(* CommandPalette.tsx:84-92).                                              *)
THEOREM ChromeIsInOrder ==
  ShellChromeSpec => [](DrawerIsAPhones /\ ClosedIsFresh /\ RailIsRemembered)
  BY ChromeAlways, PTL DEF ChromeInv

-----------------------------------------------------------------------------
(* The charts: integers                                                    *)

LEMMA NatsHaveALeast ==
  ASSUME NEW T, T \subseteq Nat, T # {}
  PROVE  \E n \in T : \A m \in T : n <= m
<1>1. PICK n \in T : \A m \in T : ~ (<<m, n>> \in OpToRel(<, Nat))
  BY NatLessThanWellFounded, WFMin, Zenon
<1>2. \A m \in T : m \in Nat /\ n \in Nat /\ ~ (m < n)
  BY <1>1, Zenon DEF OpToRel
<1>3. \A m \in T : n <= m
  BY <1>2
<1> QED
  BY <1>1, <1>3

\* A sequence of integers has a least value: the first place where the values
\* so far had none would have one.
LEMMA SomeIsLeast ==
  ASSUME NEW s \in Seq(Int), s # <<>>
  PROVE  \E i \in DOMAIN s : \A j \in DOMAIN s : s[i] <= s[j]
<1> DEFINE L(k) == \E i \in 1..k : \A j \in 1..k : s[i] <= s[j]
           T == {k \in 1..Len(s) : ~ L(k)}
<1>1. /\ Len(s) \in Nat /\ Len(s) >= 1 /\ DOMAIN s = 1..Len(s)
      /\ \A i \in 1..Len(s) : s[i] \in Int
  BY EmptySeq
<1>2. T = {}
  <2> SUFFICES ASSUME T # {} PROVE FALSE
    OBVIOUS
  <2>1. T \subseteq Nat
    BY <1>1
  <2>2. PICK k \in T : \A m \in T : k <= m
    BY <2>1, NatsHaveALeast
  <2>3. k \in 1..Len(s) /\ ~ L(k)
    OBVIOUS
  <2>4. k # 1
    <3> SUFFICES ASSUME k = 1 PROVE FALSE
      OBVIOUS
    <3>1. \A j \in 1..1 : j = 1
      OBVIOUS
    <3>2. s[1] \in Int /\ s[1] <= s[1]
      BY <1>1
    <3> QED
      BY <2>3, <3>1, <3>2
  <2>5. k - 1 \in 1..Len(s) /\ ~ (k <= k - 1)
    BY <1>1, <2>3, <2>4
  <2>6. L(k - 1)
    BY <2>2, <2>5
  <2>7. PICK i \in 1..(k - 1) : \A j \in 1..(k - 1) : s[i] <= s[j]
    BY <2>6
  <2> HIDE DEF T
  <2>8. k \in Nat /\ k - 1 \in Nat /\ 1..k \subseteq 1..Len(s) /\ 1..(k - 1) \subseteq 1..k
        /\ i \in 1..k /\ k \in 1..k
    <3>1. k \in 1..Len(s) /\ Len(s) \in Nat /\ i \in 1..(k - 1)
      BY <1>1, <2>3, <2>7
    <3>2. k \in Nat /\ k - 1 \in Nat /\ k <= Len(s) /\ 1 <= k
      BY <3>1
    <3>3. 1..k \subseteq 1..Len(s) /\ 1..(k - 1) \subseteq 1..k /\ k \in 1..k
      BY <3>1, <3>2
    <3> QED
      BY <3>1, <3>2, <3>3
  <2>9. \A j \in 1..k : j \in 1..(k - 1) \/ j = k
    BY <2>8
  <2>10. s[i] \in Int /\ s[k] \in Int /\ \A j \in 1..k : s[j] \in Int
    BY <1>1, <2>8
  <2>11. CASE s[i] <= s[k]
    BY <2>3, <2>7, <2>8, <2>9, <2>11
  <2>12. CASE ~ (s[i] <= s[k])
    <3>1. ASSUME NEW j \in 1..k PROVE s[k] <= s[j]
      <4>1. CASE j = k
        BY <2>10, <4>1
      <4>2. CASE j \in 1..(k - 1)
        <5>1. s[i] <= s[j] /\ s[j] \in Int
          BY <2>7, <2>10, <4>2
        <5> QED
          BY <2>10, <2>12, <5>1
      <4> QED
        BY <2>9, <4>1, <4>2
    <3> QED
      BY <2>3, <2>8, <3>1
  <2> QED
    BY <2>11, <2>12
<1>3. Len(s) \in 1..Len(s)
  BY <1>1
<1>4. L(Len(s))
  BY <1>2, <1>3
<1> QED
  BY <1>1, <1>4

LEMMA SomeIsGreatest ==
  ASSUME NEW s \in Seq(Int), s # <<>>
  PROVE  \E i \in DOMAIN s : \A j \in DOMAIN s : s[i] >= s[j]
<1> DEFINE n == [i \in 1..Len(s) |-> - s[i]]
<1>1. Len(s) \in Nat /\ Len(s) >= 1 /\ DOMAIN s = 1..Len(s) /\ \A i \in 1..Len(s) : s[i] \in Int
  BY EmptySeq
<1>2. n \in Seq(Int) /\ Len(n) = Len(s) /\ DOMAIN n = 1..Len(s) /\ n # <<>>
  BY <1>1
<1>3. PICK i \in 1..Len(s) : \A j \in 1..Len(s) : n[i] <= n[j]
  BY <1>2, SomeIsLeast
<1>4. \A j \in 1..Len(s) : n[j] = - s[j]
  OBVIOUS
<1> HIDE DEF n
<1>5. \A j \in 1..Len(s) : s[i] >= s[j]
  BY <1>1, <1>3, <1>4
<1> QED
  BY <1>1, <1>5

LEMMA TimesKeepsOrder ==
  ASSUME NEW a \in Int, NEW b \in Int, NEW s \in Int, s > 0
  PROVE  (a <= b => a * s <= b * s) /\ (a * s < b * s => a < b)
<1>1. \A d \in Nat : d * s \in Nat
  OBVIOUS
<1>2. ASSUME a <= b PROVE a * s <= b * s
  <2>1. b - a \in Nat
    BY <1>2
  <2>2. (b - a) * s = b * s - a * s /\ a * s \in Int /\ b * s \in Int
    OBVIOUS
  <2>3. (b - a) * s \in Nat
    BY <1>1, <2>1
  <2> QED
    BY <2>2, <2>3
<1>3. ASSUME ~ (a < b) PROVE ~ (a * s < b * s)
  <2>1. a - b \in Nat
    BY <1>3
  <2>2. (a - b) * s = a * s - b * s /\ a * s \in Int /\ b * s \in Int
    OBVIOUS
  <2>3. (a - b) * s \in Nat
    BY <1>1, <2>1
  <2> QED
    BY <2>2, <2>3
<1> QED
  BY <1>2, <1>3

\* A quotient is the greatest multiple that fits.
LEMMA QuotientFits ==
  ASSUME NEW x \in Int, NEW s \in Int, s > 0
  PROVE  /\ x \div s \in Int /\ (x \div s) * s <= x /\ x < (x \div s) * s + s
         /\ \A q \in Int : q * s <= x => q <= x \div s
<1>1. x \div s \in Int /\ (x \div s) * s <= x /\ x < (x \div s) * s + s
  OBVIOUS
<1>2. ASSUME NEW q \in Int, q * s <= x PROVE q <= x \div s
  <2> DEFINE d == x \div s
  <2>1. d \in Int /\ d + 1 \in Int /\ (d + 1) * s = d * s + s
    BY <1>1
  <2>2. d * s \in Int /\ q * s \in Int
    BY <2>1
  <2>3. q * s < (d + 1) * s
    BY <1>1, <1>2, <2>1, <2>2
  <2> HIDE DEF d
  <2>4. q < d + 1
    BY <2>1, <2>3, TimesKeepsOrder
  <2>5. q <= d
    BY <2>1, <2>4
  <2> QED
    BY <2>5 DEF d
<1> QED
  BY <1>1, <1>2

-----------------------------------------------------------------------------
(* The axis                                                                *)

ScaleTyped(scale) ==
  scale.min \in Int /\ scale.max \in Int /\ scale.step \in Int /\ scale.step > 0

\* The ticks are the multiples of the step that lie within the axis.
LEMMA TicksAreMultiples ==
  ASSUME NEW scale, ScaleTyped(scale)
  PROVE  /\ \A t \in Ticks(scale) : t \in Int /\ scale.min <= t /\ t <= scale.max
         /\ \A k \in Int : scale.min <= k * scale.step /\ k * scale.step <= scale.max =>
              k * scale.step \in Ticks(scale)
<1> DEFINE s == scale.step
           q == (- scale.min) \div s
           r == scale.max \div s
<1>1. /\ s \in Int /\ s > 0 /\ scale.min \in Int /\ scale.max \in Int /\ - scale.min \in Int
  BY DEF ScaleTyped
<1>2. /\ q \in Int /\ q * s <= - scale.min /\ \A k \in Int : k * s <= - scale.min => k <= q
      /\ r \in Int /\ r * s <= scale.max /\ \A k \in Int : k * s <= scale.max => k <= r
  BY <1>1, QuotientFits
<1>3. Ticks(scale) = {k * s : k \in (- q)..r}
  BY DEF Ticks
<1> HIDE DEF q, r
<1>4. ASSUME NEW k \in (- q)..r
      PROVE  k * s \in Int /\ scale.min <= k * s /\ k * s <= scale.max
  <2>1. k \in Int /\ - q \in Int /\ - q <= k /\ k <= r
    BY <1>2
  <2>2. (- q) * s <= k * s /\ k * s <= r * s
    BY <1>1, <1>2, <2>1, TimesKeepsOrder
  <2>3. (- q) * s = - (q * s) /\ q * s \in Int /\ k * s \in Int /\ r * s \in Int
    BY <1>1, <1>2, <2>1
  <2> QED
    BY <1>1, <1>2, <2>2, <2>3
<1>5. ASSUME NEW k \in Int, scale.min <= k * s, k * s <= scale.max
      PROVE  k \in (- q)..r
  <2>1. k <= r
    BY <1>2, <1>5
  <2>2. (- k) * s = - (k * s) /\ k * s \in Int /\ - k \in Int
    BY <1>1
  <2>3. (- k) * s <= - scale.min
    BY <1>1, <1>5, <2>2
  <2>4. - k <= q
    BY <1>2, <2>2, <2>3
  <2> QED
    BY <1>2, <2>1, <2>4
<1> QED
  BY <1>3, <1>4, <1>5

\* An axis of more than a step has two ticks: each bound has a multiple within
\* half a step, and it is on the axis.
LEMMA ScaleHolds ==
  ASSUME NEW lo \in Int, NEW hi \in Int, NEW step \in Int, step > 0, step < hi - lo
  PROVE  LET scale == ScaleOf(lo, hi, step)
         IN /\ ScaleTyped(scale) /\ scale.min <= lo /\ hi <= scale.max
            /\ \E t, u \in Ticks(scale) : t # u
<1> DEFINE scale == ScaleOf(lo, hi, step)
           a == lo \div step
           b == - ((- hi) \div step)
<1>1. a \in Int /\ a * step <= lo /\ lo < a * step + step
  BY QuotientFits
<1>2. b \in Int /\ hi <= b * step /\ b * step - step < hi /\ CeilTo(hi, step) = b * step
  <2> DEFINE e == (- hi) \div step
  <2>1. - hi \in Int
    OBVIOUS
  <2>2. e \in Int /\ e * step <= - hi /\ - hi < e * step + step
    BY <2>1, QuotientFits
  <2>3. CeilTo(hi, step) = - (e * step) /\ b = - e
    BY DEF CeilTo, FloorTo
  <2> HIDE DEF e, b
  <2>4. e * step \in Int /\ (- e) * step = - (e * step)
    BY <2>2
  <2> QED
    BY <2>2, <2>3, <2>4
<1>3. /\ scale.step = step
      /\ scale.min = IF 2 * (lo - a * step) <= step THEN a * step ELSE lo
      /\ scale.max = IF 2 * (b * step - hi) <= step THEN b * step ELSE hi
  BY <1>2 DEF ScaleOf, FloorTo
<1> HIDE DEF scale, a, b
<1>4. a * step \in Int /\ b * step \in Int
  BY <1>1, <1>2
<1>5. ScaleTyped(scale) /\ scale.min <= lo /\ hi <= scale.max
  BY <1>1, <1>2, <1>3, <1>4 DEF ScaleTyped
<1>6. PICK k \in Int : scale.min <= k * step /\ 2 * (k * step - lo) <= step
  <2>1. CASE 2 * (lo - a * step) <= step
    BY <1>1, <1>3, <1>4, <2>1
  <2>2. CASE ~ (2 * (lo - a * step) <= step)
    <3>1. (a + 1) * step = a * step + step /\ a + 1 \in Int
      BY <1>1
    <3>2. scale.min <= (a + 1) * step /\ 2 * ((a + 1) * step - lo) <= step
      BY <1>1, <1>3, <1>4, <2>2, <3>1
    <3> QED
      BY <3>1, <3>2
  <2> QED
    BY <2>1, <2>2
<1>7. PICK n \in Int : n * step <= scale.max /\ 2 * (hi - n * step) <= step
  <2>1. CASE 2 * (b * step - hi) <= step
    BY <1>2, <1>3, <1>4, <2>1
  <2>2. CASE ~ (2 * (b * step - hi) <= step)
    <3>1. (b - 1) * step = b * step - step /\ b - 1 \in Int
      BY <1>2
    <3>2. (b - 1) * step <= scale.max /\ 2 * (hi - (b - 1) * step) <= step
      BY <1>2, <1>3, <1>4, <2>2, <3>1
    <3> QED
      BY <3>1, <3>2
  <2> QED
    BY <2>1, <2>2
<1>8. /\ k * step \in Int /\ n * step \in Int /\ scale.min \in Int /\ scale.max \in Int
  BY <1>5, <1>6, <1>7 DEF ScaleTyped
<1>9. k * step < n * step
  BY <1>6, <1>7, <1>8
<1>10. /\ k * step \in Ticks(scale) /\ n * step \in Ticks(scale)
  <2>1. k * step <= scale.max /\ scale.min <= n * step
    BY <1>6, <1>7, <1>8, <1>9
  <2> QED
    BY <1>3, <1>5, <1>6, <1>7, <2>1, TicksAreMultiples
<1>11. k * step # n * step
  BY <1>8, <1>9
<1>12. \E t, u \in Ticks(scale) : t # u
  BY <1>10, <1>11
<1> QED
  BY <1>5, <1>12 DEF scale

LEMMA StepsAreShort ==
  ASSUME NEW m \in Nat \ {0}, NEW spread \in Int, 3 * m <= spread, spread < 30 * m
  PROVE  /\ StepFor(spread, m) \in Int /\ StepFor(spread, m) > 0
         /\ StepFor(spread, m) < 2 * spread
<1>1. CASE spread <= 3 * m
  BY <1>1 DEF StepFor
<1>2. CASE ~ (spread <= 3 * m) /\ spread <= 6 * m
  BY <1>2 DEF StepFor
<1>3. CASE ~ (spread <= 3 * m) /\ ~ (spread <= 6 * m) /\ 2 * spread <= 15 * m
  BY <1>3 DEF StepFor
<1>4. CASE ~ (spread <= 3 * m) /\ ~ (spread <= 6 * m) /\ ~ (2 * spread <= 15 * m)
           /\ spread <= 15 * m
  BY <1>4 DEF StepFor
<1>5. CASE ~ (spread <= 3 * m) /\ ~ (spread <= 6 * m) /\ ~ (2 * spread <= 15 * m)
           /\ ~ (spread <= 15 * m)
  BY <1>5 DEF StepFor
<1> QED
  BY <1>1, <1>2, <1>3, <1>4, <1>5

\* The bounds of the points, with zero below them.
LEMMA BoundsOf ==
  ASSUME NEW s \in Seq(Int), s # <<>>
  PROVE  /\ Smallest(s) \in Int /\ Largest(s) \in Int /\ Smallest(s) <= 0
         /\ \A i \in DOMAIN s : s[i] \in Int /\ Smallest(s) <= s[i] /\ s[i] <= Largest(s)
         /\ Smallest(s) <= Largest(s)
<1>1. \A i \in DOMAIN s : s[i] \in Int
  OBVIOUS
<1>2. PICK a \in DOMAIN s : \A j \in DOMAIN s : s[a] <= s[j]
  BY SomeIsLeast
<1>3. PICK z \in DOMAIN s : \A j \in DOMAIN s : s[z] >= s[j]
  BY SomeIsGreatest
<1> DEFINE V == {s[i] : i \in DOMAIN s}
<1>4. Largest(s) \in V /\ \A y \in V : Largest(s) >= y
  <2>1. s[z] \in V /\ \A y \in V : s[z] >= y
    BY <1>3
  <2> HIDE DEF V
  <2>2. Max(V) \in V /\ \A y \in V : Max(V) >= y
    BY <2>1 DEF Max
  <2> QED
    BY <2>2 DEF Largest, V
<1> DEFINE W == {0} \cup V
<1>5. Smallest(s) \in W /\ \A y \in W : Smallest(s) <= y
  <2>1. \E x \in W : \A y \in W : x <= y
    <3>1. CASE s[a] <= 0
      BY <1>1, <1>2, <3>1
    <3>2. CASE ~ (s[a] <= 0)
      <4>1. \A j \in DOMAIN s : 0 <= s[j]
        BY <1>1, <1>2, <3>2
      <4> QED
        BY <4>1
    <3> QED
      BY <3>1, <3>2
  <2> HIDE DEF W
  <2>2. Min(W) \in W /\ \A y \in W : Min(W) <= y
    BY <2>1 DEF Min
  <2> QED
    BY <2>2 DEF Smallest, W, V
<1>6. \A y \in W : y \in Int
  BY <1>1
<1>7. \A i \in DOMAIN s : s[i] \in V /\ s[i] \in W
  OBVIOUS
<1>8. 0 \in W /\ V \subseteq W
  OBVIOUS
<1> HIDE DEF V, W
<1>9. Smallest(s) \in Int /\ Largest(s) \in Int
  BY <1>4, <1>5, <1>6, <1>8
<1>10. \A i \in DOMAIN s : s[i] \in Int /\ Smallest(s) <= s[i] /\ s[i] <= Largest(s)
  BY <1>1, <1>4, <1>5, <1>7, <1>9
<1> QED
  BY <1>5, <1>8, <1>9, <1>10, <1>3

\* On an axis that holds a value the value is drawn inside the plot.
LEMMA InsideThePlot ==
  ASSUME NEW scale, ScaleTyped(scale), NEW v \in Int, scale.min <= v, v <= scale.max
  PROVE  /\ 4 * (scale.max - scale.min) <= YAt(v, scale)
         /\ YAt(v, scale) <= (PlotHeight - 4) * (scale.max - scale.min)
<1>1. /\ scale.min \in Int /\ scale.max \in Int
      /\ YAt(v, scale) = (136 - 4) * (scale.max - scale.min) - (v - scale.min) * (136 - 8)
      /\ PlotHeight = 136
  BY DEF YAt, PlotHeight, ScaleTyped
<1>2. PICK lo \in Int : lo = scale.min
  BY <1>1
<1>3. PICK hi \in Int : hi = scale.max
  BY <1>1
<1>4. /\ 4 * (hi - lo) <= 132 * (hi - lo) - (v - lo) * 128
      /\ 132 * (hi - lo) - (v - lo) * 128 <= 132 * (hi - lo)
  BY <1>2, <1>3
<1>5. 136 - 4 = 132 /\ 136 - 8 = 128
  OBVIOUS
<1> QED
  BY <1>1, <1>2, <1>3, <1>4, <1>5

\* Whatever points are drawn, of those the page may have.
LEMMA AxisHolds ==
  ASSUME NEW s \in PointLists, s # <<>>
  PROVE  LET scale == AxisOf(s)
         IN /\ ScaleTyped(scale)
            /\ \A i \in DOMAIN s : scale.min <= 2 * s[i] /\ 2 * s[i] <= scale.max
            /\ \E t, u \in Ticks(scale) : t # u
<1>1. s \in Seq(Int) /\ Magnitudes \subseteq Nat \ {0}
  BY ChartsAssumption
<1> DEFINE lo == Smallest(s)
           hi == Largest(s)
           l == AxisLower(lo, hi)
           h == AxisUpper(lo, hi)
           scale == AxisOf(s)
<1>2. /\ lo \in Int /\ hi \in Int /\ lo <= 0 /\ lo <= hi
      /\ \A i \in DOMAIN s : s[i] \in Int /\ lo <= s[i] /\ s[i] <= hi
  BY <1>1, BoundsOf
<1>3. l = h \/ HasMagnitude(h - l)
  BY ChartsUnit DEF ChartsUnit
<1> HIDE DEF lo, hi
<1>4. l \in Int /\ h \in Int /\ l <= lo /\ hi <= h
  BY <1>2 DEF AxisLower, AxisUpper, Least, Greatest
<1>5. scale = IF l = h THEN [step |-> 2, min |-> 0, max |-> 2]
              ELSE ScaleOf(2 * l, 2 * h, StepFor(h - l, MagnitudeOf(h - l)))
  BY DEF AxisOf, NiceScale, lo, hi
<1>6. CASE l = h
  <2>1. lo = 0 /\ hi = 0
    BY <1>2, <1>6 DEF AxisLower, AxisUpper, Least, Greatest
  <2>2. scale = [step |-> 2, min |-> 0, max |-> 2]
    BY <1>5, <1>6
  <2>3. ScaleTyped(scale) /\ scale.min = 0 /\ scale.max = 2 /\ scale.step = 2
    BY <2>2 DEF ScaleTyped
  <2>4. \A i \in DOMAIN s : scale.min <= 2 * s[i] /\ 2 * s[i] <= scale.max
    <3> SUFFICES ASSUME NEW i \in DOMAIN s PROVE 0 <= 2 * s[i] /\ 2 * s[i] <= 2
      BY <2>3
    <3>1. s[i] = 0
      BY <1>2, <2>1
    <3> QED
      BY <3>1
  <2>5. 0 \in Ticks(scale) /\ 2 \in Ticks(scale)
    <3> HIDE DEF scale
    <3>1. 0 \in Int /\ 1 \in Int /\ 0 * 2 = 0 /\ 1 * 2 = 2
      OBVIOUS
    <3> QED
      BY <2>3, <3>1, TicksAreMultiples
  <2> QED
    BY <2>3, <2>4, <2>5
<1>7. CASE l # h
  <2> DEFINE m == MagnitudeOf(h - l)
             step == StepFor(h - l, m)
  <2>1. m \in Magnitudes /\ 3 * m <= h - l /\ h - l < 30 * m
    BY <1>3, <1>7 DEF HasMagnitude, MagnitudeOf
  <2> HIDE DEF m, l, h
  <2>2. m \in Nat \ {0} /\ h - l \in Int
    BY <1>1, <1>4, <2>1
  <2>3. step \in Int /\ step > 0 /\ step < 2 * (h - l)
    BY <2>1, <2>2, StepsAreShort
  <2>4. scale = ScaleOf(2 * l, 2 * h, step)
    BY <1>5, <1>7 DEF m
  <2> HIDE DEF step
  <2>5. 2 * l \in Int /\ 2 * h \in Int /\ step < 2 * h - 2 * l
    BY <1>4, <2>3
  <2> HIDE DEF scale
  <2>6. /\ ScaleTyped(scale) /\ scale.min <= 2 * l /\ 2 * h <= scale.max
        /\ \E t, u \in Ticks(scale) : t # u
    BY <2>3, <2>4, <2>5, ScaleHolds
  <2>7. ASSUME NEW i \in DOMAIN s PROVE scale.min <= 2 * s[i] /\ 2 * s[i] <= scale.max
    BY <1>2, <1>4, <2>6 DEF ScaleTyped
  <2> QED
    BY <2>6, <2>7 DEF scale
<1> QED
  BY <1>6, <1>7

-----------------------------------------------------------------------------
(* The gauge                                                               *)

Gauges ==
  [band : Bands, value : Optional(Int), target : Fractions, arc : Fractions,
   frame : Optional(Fractions)]

\* The target is the value's, and a frame that is asked for draws it.
GaugeInv ==
  /\ gauge \in Gauges
  /\ gauge.target = Target(gauge.band, gauge.value)
  /\ IF gauge.frame = <<>> THEN gauge.arc = gauge.target ELSE gauge.frame[1] = gauge.target

PicturesInv ==
  /\ line \in PointLists \cup {<<>>} /\ asTable \in BOOLEAN /\ slices \in Seq(Nat)
  /\ GaugeInv

LEMMA OptionalIs ==
  ASSUME NEW S
  PROVE  /\ <<>> \in Optional(S)
         /\ \A x \in S : <<x>> \in Optional(S) /\ <<x>> # <<>> /\ <<x>>[1] = x
         /\ \A s \in Optional(S) : s # <<>> => s[1] \in S
<1>1. <<>> \in Optional(S)
  BY DEF Optional
<1>2. ASSUME NEW x \in S PROVE <<x>> \in Optional(S) /\ <<x>> # <<>> /\ <<x>>[1] = x
  BY DEF Optional
<1>3. ASSUME NEW s \in Optional(S), s # <<>> PROVE s[1] \in S
  <2>1. s \in Seq(S) /\ Len(s) \in Nat \ {0}
    BY <1>3, EmptySeq DEF Optional
  <2> QED
    BY <2>1
<1> QED
  BY <1>1, <1>2, <1>3

\* A band's ends are not negative, and a range is not upside down.
LEMMA BandsAre ==
  ASSUME NEW band \in Bands
  PROVE  /\ band.min # <<>> => band.min[1] \in Nat
         /\ band.max # <<>> => band.max[1] \in Nat
<1>1. band.min \in Optional(Nat) /\ band.max \in Optional(Nat)
  BY ChartsAssumption
<1> QED
  BY <1>1, OptionalIs

LEMMA GaugeReaches ==
  ASSUME NEW band \in Bands, NEW value \in Optional(Int)
  PROVE  /\ GaugeMax(band, value) \in Nat /\ GaugeMax(band, value) >= 1000
         /\ value # <<>> => value[1] \in Int /\ 10 * value[1] <= GaugeMax(band, value)
<1>1. value # <<>> => value[1] \in Int
  BY OptionalIs
<1>2. HighEnd(band, value) \in Int
  BY <1>1, BandsAre DEF HighEnd
<1>3. PICK n \in Int : n = IF value = <<>> THEN 0 ELSE 10 * value[1]
  BY <1>1
<1>4. PICK t \in Int : t = 16 * HighEnd(band, value)
  BY <1>2
<1>5. GaugeMax(band, value) = Greatest(Greatest(t, n), 1000)
  BY <1>3, <1>4 DEF GaugeMax
<1>6. /\ Greatest(Greatest(t, n), 1000) \in Nat /\ Greatest(Greatest(t, n), 1000) >= 1000
      /\ n <= Greatest(Greatest(t, n), 1000)
  BY DEF Greatest
<1> QED
  BY <1>1, <1>3, <1>5, <1>6

LEMMA TargetIs ==
  ASSUME NEW band \in Bands, NEW value \in Optional(Int)
  PROVE  /\ Target(band, value) \in Fractions
         /\ value # <<>> => Target(band, value)[1]
                              = Greatest(0, Least(10 * value[1], GaugeMax(band, value)))
<1>1. CASE value = <<>>
  <2>1. Target(band, value) = <<0, 1>>
    BY <1>1 DEF Target
  <2> QED
    BY <1>1, <2>1 DEF Fractions
<1>2. CASE value # <<>>
  <2>1. PICK d \in Nat : d = GaugeMax(band, value)
    BY GaugeReaches
  <2>2. PICK v \in Int : v = 10 * value[1]
    BY <1>2, GaugeReaches
  <2>3. d >= 1000 /\ v <= d
    BY <1>2, <2>1, <2>2, GaugeReaches
  <2>4. Target(band, value) = <<Greatest(0, Least(v, d)), d>>
    BY <1>2, <2>1, <2>2 DEF Target, Clamped
  <2>5. Greatest(0, Least(v, d)) \in Nat /\ Greatest(0, Least(v, d)) <= d
    BY <2>3 DEF Greatest, Least
  <2>6. <<Greatest(0, Least(v, d)), d>> \in Fractions
    BY <2>3, <2>5 DEF Fractions
  <2> QED
    BY <2>1, <2>2, <2>4, <2>6
<1> QED
  BY <1>1, <1>2

\* What is healthy is drawn within the band.
LEMMA HealthyIsInside ==
  ASSUME NEW band \in Bands, NEW value \in Optional(Int), value # <<>>,
         IsHealthy(band, value[1])
  PROVE  /\ BandFrom(band) <= Target(band, value)[1]
         /\ Target(band, value)[1] <= BandTo(band, value)
<1>1. PICK d \in Nat : d = GaugeMax(band, value)
  BY GaugeReaches
<1>2. PICK v \in Int : v = value[1]
  BY GaugeReaches
<1>3. d >= 1000 /\ 10 * v <= d
  BY <1>1, <1>2, GaugeReaches
<1>4. Target(band, value)[1] = Greatest(0, Least(10 * v, d))
  BY <1>1, <1>2, TargetIs
<1>5. BandFrom(band) <= Greatest(0, Least(10 * v, d))
  <2>1. CASE band.min = <<>>
    BY <1>3, <2>1 DEF BandFrom, Greatest, Least
  <2>2. CASE band.min # <<>>
    <3>1. PICK n \in Nat : n = band.min[1]
      BY <2>2, BandsAre
    <3>2. n <= v /\ BandFrom(band) = 10 * n
      BY <1>2, <2>2, <3>1 DEF IsHealthy, BandFrom
    <3>3. 10 * n <= Greatest(0, Least(10 * v, d))
      BY <1>3, <3>2 DEF Greatest, Least
    <3> QED
      BY <3>2, <3>3
  <2> QED
    BY <2>1, <2>2
<1>6. Greatest(0, Least(10 * v, d)) <= BandTo(band, value)
  <2>1. CASE band.max = <<>>
    BY <1>1, <1>3, <2>1 DEF BandTo, Greatest, Least
  <2>2. CASE band.max # <<>>
    <3>1. PICK n \in Nat : n = band.max[1]
      BY <2>2, BandsAre
    <3>2. v <= n /\ BandTo(band, value) = Least(10 * n, d)
      BY <1>1, <1>2, <2>2, <3>1 DEF IsHealthy, BandTo
    <3>3. Greatest(0, Least(10 * v, d)) <= Least(10 * n, d)
      BY <1>3, <3>2 DEF Greatest, Least
    <3> QED
      BY <3>2, <3>3
  <2> QED
    BY <2>1, <2>2
<1> QED
  BY <1>4, <1>5, <1>6

LEMMA PicturesStart == ChartsInit => PicturesInv
<1> SUFFICES ASSUME ChartsInit PROVE PicturesInv
  OBVIOUS
<1>1. PICK band \in Bands : gauge = Mounted(band, <<>>)
  BY DEF ChartsInit
<1>2. <<>> \in Optional(Int)
  BY OptionalIs
<1>3. PICK t \in Fractions : t = Target(band, <<>>)
  BY <1>2, TargetIs
<1>4. gauge = [band |-> band, value |-> <<>>, target |-> t, arc |-> <<0, 1>>, frame |-> <<t>>]
  BY <1>1, <1>3 DEF Mounted
<1>5. <<0, 1>> \in Fractions /\ <<t>> \in Optional(Fractions) /\ <<t>> # <<>> /\ <<t>>[1] = t
  BY OptionalIs DEF Fractions
<1>6. gauge \in Gauges
  BY <1>2, <1>4, <1>5 DEF Gauges
<1>7. GaugeInv
  BY <1>3, <1>4, <1>5, <1>6 DEF GaugeInv
<1>8. line = <<>> /\ asTable = FALSE /\ slices = <<>>
  BY DEF ChartsInit
<1>9. slices \in Seq(Nat)
  BY <1>8
<1> QED
  BY <1>7, <1>8, <1>9 DEF PicturesInv

LEMMA PicturesNext == PicturesInv /\ [ChartsNext]_chartVars => PicturesInv'
<1> SUFFICES ASSUME PicturesInv, [ChartsNext]_chartVars PROVE PicturesInv'
  OBVIOUS
<1>t. /\ line \in PointLists \cup {<<>>} /\ asTable \in BOOLEAN /\ slices \in Seq(Nat)
      /\ GaugeInv
  BY DEF PicturesInv
<1>g. gauge' = gauge => GaugeInv'
  BY <1>t DEF GaugeInv
<1>1. ASSUME NEW points \in PointLists, PointsArrive(points) PROVE PicturesInv'
  BY <1>1, <1>t, <1>g DEF PointsArrive, PicturesInv
<1>2. CASE ToggleTable
  BY <1>2, <1>t, <1>g DEF ToggleTable, PicturesInv
<1>3. ASSUME NEW values \in SliceLists, SlicesArrive(values) PROVE PicturesInv'
  <2>1. values \in Seq(Nat)
    BY ChartsAssumption
  <2> QED
    BY <1>3, <1>t, <1>g, <2>1 DEF SlicesArrive, PicturesInv
<1>4. ASSUME NEW band \in Bands, NEW value \in RatioValues, RatioArrives(band, value)
      PROVE  PicturesInv'
  <2>1. value \in Optional(Int)
    BY ChartsAssumption
  <2>2. PICK t \in Fractions : t = Target(band, value)
    BY <2>1, TargetIs
  <2>3. <<t>> \in Optional(Fractions) /\ <<t>> # <<>> /\ <<t>>[1] = t
    BY OptionalIs
  <2>4. /\ gauge' = [gauge EXCEPT !.band = band, !.value = value, !.target = t,
                                  !.frame = IF t = gauge.target THEN @ ELSE <<t>>]
        /\ UNCHANGED <<line, asTable, slices>>
    BY <1>4, <2>2 DEF RatioArrives
  <2>5. gauge \in Gauges
    BY <1>t DEF GaugeInv
  <2>6. PICK f \in Optional(Fractions) : f = IF t = gauge.target THEN gauge.frame ELSE <<t>>
    BY <2>3, <2>5 DEF Gauges
  <2>7. gauge' = [gauge EXCEPT !.band = band, !.value = value, !.target = t, !.frame = f]
    BY <2>4, <2>6
  <2>8. /\ gauge' \in Gauges /\ gauge'.band = band /\ gauge'.value = value /\ gauge'.target = t
        /\ gauge'.frame = f /\ gauge'.arc = gauge.arc
    BY <2>1, <2>5, <2>7 DEF Gauges
  <2>9. IF f = <<>> THEN gauge.arc = t ELSE f[1] = t
    BY <1>t, <2>3, <2>6 DEF GaugeInv
  <2> QED
    BY <1>t, <2>2, <2>4, <2>8, <2>9 DEF GaugeInv, PicturesInv
<1>5. CASE Frame
  <2>1. /\ gauge.frame # <<>> /\ gauge' = [gauge EXCEPT !.arc = gauge.frame[1], !.frame = <<>>]
        /\ UNCHANGED <<line, asTable, slices>> /\ gauge \in Gauges
    BY <1>5, <1>t DEF Frame, GaugeInv
  <2>2. PICK f \in Fractions : f = gauge.frame[1]
    BY <2>1, OptionalIs DEF Gauges
  <2>3. gauge' = [gauge EXCEPT !.arc = f, !.frame = <<>>] /\ <<>> \in Optional(Fractions)
    BY <2>1, <2>2, OptionalIs
  <2>4. /\ gauge' \in Gauges /\ gauge'.band = gauge.band /\ gauge'.value = gauge.value
        /\ gauge'.target = gauge.target /\ gauge'.frame = <<>> /\ gauge'.arc = f
    BY <2>1, <2>3 DEF Gauges
  <2>5. f = gauge.target
    BY <1>t, <2>1, <2>2 DEF GaugeInv
  <2> QED
    BY <1>t, <2>1, <2>4, <2>5 DEF GaugeInv, PicturesInv
<1>6. CASE UNCHANGED chartVars
  BY <1>6, <1>t, <1>g DEF chartVars, PicturesInv
<1> QED
  BY <1>1, <1>2, <1>3, <1>4, <1>5, <1>6 DEF ChartsNext

LEMMA PicturesSay == PicturesInv => ChartsTypeOK /\ LineFits /\ GaugeIsTrue
<1> SUFFICES ASSUME PicturesInv PROVE ChartsTypeOK /\ LineFits /\ GaugeIsTrue
  OBVIOUS
<1>1. ChartsTypeOK
  <2>1. line \in Seq(Int)
    <3>1. line \in PointLists \/ line = <<>>
      BY DEF PicturesInv
    <3>2. PointLists \subseteq Seq(Int)
      BY ChartsAssumption
    <3>3. CASE line = <<>>
      BY <3>3
    <3>4. CASE line \in PointLists
      BY <3>2, <3>4
    <3> QED
      BY <3>1, <3>3, <3>4
  <2> QED
    BY <2>1 DEF ChartsTypeOK, PicturesInv, GaugeInv, Gauges
<1>2. LineFits
  <2> SUFFICES ASSUME line # <<>> PROVE LineFits
    BY DEF LineFits
  <2> DEFINE scale == AxisOf(line)
  <2>1. line \in PointLists /\ line \in Seq(Int)
    BY ChartsAssumption DEF PicturesInv
  <2>2. /\ ScaleTyped(scale)
        /\ \A i \in DOMAIN line : scale.min <= 2 * line[i] /\ 2 * line[i] <= scale.max
        /\ \E t, u \in Ticks(scale) : t # u
    BY <2>1, AxisHolds
  <2> HIDE DEF scale
  <2>3. ASSUME NEW v \in {2 * line[i] : i \in DOMAIN line} \cup Ticks(scale)
        PROVE  v \in Int /\ scale.min <= v /\ v <= scale.max
    <3>1. \A t \in Ticks(scale) : t \in Int /\ scale.min <= t /\ t <= scale.max
      BY <2>2, TicksAreMultiples
    <3>2. \A i \in DOMAIN line : 2 * line[i] \in Int
      BY <2>1
    <3> QED
      BY <2>2, <3>1, <3>2
  <2>4. \A v \in {2 * line[i] : i \in DOMAIN line} \cup Ticks(scale) :
          /\ 4 * (scale.max - scale.min) <= YAt(v, scale)
          /\ YAt(v, scale) <= (PlotHeight - 4) * (scale.max - scale.min)
    BY <2>2, <2>3, InsideThePlot
  <2> QED
    BY <2>2, <2>4 DEF LineFits, scale
<1>3. GaugeIsTrue
  <2>1. gauge.band \in Bands /\ gauge.value \in Optional(Int)
    BY DEF PicturesInv, GaugeInv, Gauges
  <2>2. gauge.target = Target(gauge.band, gauge.value)
    BY DEF PicturesInv, GaugeInv
  <2>3. gauge.frame = <<>> => gauge.arc = gauge.target
    BY DEF PicturesInv, GaugeInv
  <2> QED
    BY <2>1, <2>2, <2>3, HealthyIsInside DEF GaugeIsTrue
<1> QED
  BY <1>1, <1>2, <1>3

LEMMA PicturesAlways == ChartsSpec => []PicturesInv
  BY PicturesStart, PicturesNext, PTL DEF ChartsSpec

(* Every point of a line chart lies inside the plot, and so does every     *)
(* gridline, of which there are two or more, for any points and any powers *)
(* of ten (chart-scale.ts:44-56, ChartLine.tsx:136-141).                   *)
THEOREM LinesAreInside == ChartsSpec => []LineFits
  BY PicturesAlways, PicturesSay, PTL

(* The arc of a gauge that has come to rest ends at its value, and a       *)
(* healthy value's within the band that is drawn (RatiosView.tsx:95-111,   *)
(* RatioGauge.tsx:102-112).                                                *)
THEOREM GaugesAreTrue == ChartsSpec => []GaugeIsTrue
  BY PicturesAlways, PicturesSay, PTL

-----------------------------------------------------------------------------
(* The floating layers: measures                                           *)

GeometryTyped(g) ==
  /\ g \in [width : Nat, height : Nat, bar : Nat, left : Int, right : Int, top : Int,
            bottom : Int, panelW : Nat, panelH : Nat]
  /\ g.left <= g.right /\ g.top <= g.bottom

\* A whole pixel is half a pixel away at most.
LEMMA Rounds ==
  ASSUME NEW x \in Int
  PROVE  Rounded(x) \in Int /\ x - 5 <= Rounded(x) /\ Rounded(x) <= x + 5
  BY DEF Rounded

LEMMA TensBelow ==
  ASSUME NEW x \in Nat
  PROVE  (x \div 10) * 10 \in Nat /\ (x \div 10) * 10 <= x
  OBVIOUS

\* Whatever is clamped is inside the window where it can be.
LEMMA ClampFits ==
  ASSUME NEW left \in Int, NEW right \in Int, NEW width \in Nat
  PROVE  ShiftFits(left, right, width)
<1> DEFINE shift == IF right > width - Gutter THEN width - Gutter - right ELSE 0
           s == IF left + shift < Gutter THEN Gutter - left ELSE shift
<1>1. /\ s \in Int /\ left + s >= 80
      /\ right - left <= width - 160 => right + s <= width - 80
  BY DEF Gutter
<1>2. ClampShift(left, right, width) = Rounded(s)
  BY DEF ClampShift
<1> HIDE DEF s
<1>3. Rounded(s) \in Int /\ s - 5 <= Rounded(s) /\ Rounded(s) <= s + 5
  BY <1>1, Rounds
<1> QED
  BY <1>1, <1>2, <1>3 DEF ShiftFits, Gutter

LEMMA PanelIsBeside ==
  ASSUME NEW g, GeometryTyped(g)
  PROVE  PanelFits(g)
<1>1. SpaceBelow(g) \in Int /\ SpaceAbove(g) \in Int /\ g.panelH \in Nat
  BY DEF GeometryTyped, SpaceBelow, SpaceAbove, Gutter, OffsetY
<1>2. Space(g) \in Int
  BY <1>1 DEF Space
<1>3. Height(g) <= g.panelH /\ Height(g) \in Nat /\ (Space(g) >= 0 => Height(g) <= Space(g))
  <2>1. CASE g.panelH <= Space(g)
    BY <1>1, <1>2, <2>1 DEF Height
  <2>2. CASE ~ (g.panelH <= Space(g)) /\ Space(g) < 0
    BY <1>1, <1>2, <2>2 DEF Height
  <2>3. CASE ~ (g.panelH <= Space(g)) /\ ~ (Space(g) < 0)
    <3>1. Space(g) \in Nat /\ Space(g) <= g.panelH
      BY <1>1, <1>2, <2>3
    <3>2. Height(g) = (Space(g) \div 10) * 10
      BY <2>3 DEF Height
    <3> QED
      BY <1>1, <3>1, <3>2, TensBelow
  <2> QED
    BY <2>1, <2>2, <2>3
<1>4. Below(g) => Space(g) = g.height - 80 - g.bottom - 40
  BY DEF Space, SpaceBelow, Gutter, OffsetY
<1>5. ~ Below(g) => Space(g) = g.top - 80 - 40
  BY DEF Space, SpaceAbove, Gutter, OffsetY
<1>6. g.height \in Nat /\ g.bottom \in Int /\ g.top \in Int
  BY DEF GeometryTyped
<1>7. ASSUME Space(g) >= 0, Below(g) PROVE g.bottom + 40 + Height(g) <= g.height - 80
  BY <1>2, <1>3, <1>4, <1>6, <1>7
<1>8. ASSUME Space(g) >= 0, ~ Below(g) PROVE g.top - 40 - Height(g) >= 80
  BY <1>2, <1>3, <1>5, <1>6, <1>8
<1> QED
  BY <1>3, <1>7, <1>8 DEF PanelFits, Gutter, OffsetY

-----------------------------------------------------------------------------
(* ... and the menu                                                        *)

\* A layer that is shown was measured, the fixed one for the geometry as it is.
LayerShape ==
  layer # <<>> => \E s, p : layer = <<[shift |-> s, panel |-> p, fixed |-> Fixed(geometry)]>>

FloatingInv == FloatingLayersTypeOK /\ ClosedForgets /\ LayerShape

LEMMA GeometriesAreTyped == \A g \in Geometries : GeometryTyped(g)
  BY FloatingLayersAssumption DEF GeometryTyped

LEMMA OptionsAre ==
  /\ Len(SelectOptions) \in Nat /\ DOMAIN SelectOptions = 1..Len(SelectOptions)
  /\ \A i \in DOMAIN SelectOptions : SelectOptions[i].value \in Values
  /\ Typed \subseteq SUBSET Values
  BY FloatingLayersAssumption DEF Values

LEMMA RowsAreFew ==
  ASSUME NEW q
  PROVE  IsFiniteSet(MenuRows(q)) /\ MenuRows(q) \subseteq Nat /\ Cardinality(MenuRows(q)) \in Nat
<1>1. MenuRows(q) \subseteq 1..(Len(SelectOptions) + 1)
  BY OptionsAre DEF MenuRows
<1>2. 1 \in Int /\ Len(SelectOptions) + 1 \in Int
  BY OptionsAre
<1>3. IsFiniteSet(1..(Len(SelectOptions) + 1))
  BY <1>2, FS_Interval
<1>4. IsFiniteSet(MenuRows(q))
  BY <1>1, <1>3, FS_Subset
<1> QED
  BY <1>1, <1>4, FS_CardinalityType

LEMMA RanksCount == ASSUME NEW q, NEW row PROVE Rank(row, q) \in Nat
<1>1. IsFiniteSet({i \in MenuRows(q) : i < row})
  BY RowsAreFew, FS_Subset
<1> QED
  BY <1>1, FS_CardinalityType DEF Rank

\* A rank is of one row.
LEMMA RanksDiffer ==
  ASSUME NEW q, NEW i \in MenuRows(q), NEW j \in MenuRows(q), i < j
  PROVE  Rank(i, q) < Rank(j, q)
<1> DEFINE I == {k \in MenuRows(q) : k < i}
           J == {k \in MenuRows(q) : k < j}
<1>1. i \in Nat /\ j \in Nat /\ \A k \in MenuRows(q) : k \in Nat
  BY RowsAreFew
<1>2. I \subseteq J /\ i \in J /\ i \notin I
  <2>1. \A k \in MenuRows(q) : k < i => k < j
    BY <1>1
  <2>2. ~ (i < i)
    BY <1>1
  <2> QED
    BY <2>1, <2>2
<1>3. IsFiniteSet(J)
  BY RowsAreFew, FS_Subset
<1> HIDE DEF I, J
<1>4. /\ Cardinality(I) <= Cardinality(J)
      /\ Cardinality(I) = Cardinality(J) => I = J
      /\ IsFiniteSet(I)
  BY <1>2, <1>3, FS_Subset
<1>5. Cardinality(I) \in Nat /\ Cardinality(J) \in Nat
  BY <1>3, <1>4, FS_CardinalityType
<1>6. Cardinality(I) < Cardinality(J)
  BY <1>2, <1>4, <1>5
<1> QED
  BY <1>6 DEF Rank, I, J

LEMMA MeasuredShape ==
  ASSUME NEW g
  PROVE  /\ Measured(g) # <<>>
         /\ \E s, p : Measured(g) = <<[shift |-> s, panel |-> p, fixed |-> Fixed(g)]>>
  BY DEF Measured

LEMMA FloatingStart == FloatingLayersInit => FloatingInv
  BY DEF FloatingLayersInit, FloatingInv, FloatingLayersTypeOK, ClosedForgets, LayerShape,
         ClosedMenu

MenuTyped(m) ==
  /\ m \in [open : BOOLEAN, query : SUBSET Values, index : Int] /\ m.index >= -1
  /\ ~ m.open => m.query = Values

LEMMA MenuCloses ==
  ASSUME NEW i \in Int, i >= -1 PROVE MenuTyped(ClosedMenu(i)) /\ ~ ClosedMenu(i).open
  BY DEF MenuTyped, ClosedMenu

LEMMA FloatingNext == FloatingInv /\ [FloatingLayersNext]_layerVars => FloatingInv'
<1> SUFFICES ASSUME FloatingInv, [FloatingLayersNext]_layerVars PROVE FloatingInv'
  OBVIOUS
<1>t. /\ MenuTyped(menu) /\ picked \in {<<>>} \cup {<<v>> : v \in Values}
      /\ geometry \in Geometries /\ (menu.open <=> layer # <<>>) /\ LayerShape
      /\ menu.index \in Int /\ menu.index >= -1
  BY DEF FloatingInv, FloatingLayersTypeOK, ClosedForgets, MenuTyped
<1>s. ASSUME MenuTyped(menu'), picked' \in {<<>>} \cup {<<v>> : v \in Values},
             geometry' \in Geometries, menu'.open <=> layer' # <<>>, LayerShape'
      PROVE  FloatingInv'
  BY <1>s DEF FloatingInv, FloatingLayersTypeOK, ClosedForgets, MenuTyped
\* A step in the menu that leaves it open.
<1>i. ASSUME menu.open, NEW i \in Int, i >= -1, NEW q \in SUBSET Values,
             menu' \in {[menu EXCEPT !.index = i], [menu EXCEPT !.query = q, !.index = i]},
             UNCHANGED <<picked, geometry, layer>>
      PROVE  FloatingInv'
  <2>1. MenuTyped(menu') /\ menu'.open
    BY <1>t, <1>i DEF MenuTyped
  <2>2. LayerShape'
    BY <1>t, <1>i DEF LayerShape
  <2> QED
    BY <1>t, <1>s, <1>i, <2>1, <2>2
<1>c. ASSUME menu' = ClosedMenu(menu.index), layer' = <<>>, geometry' = geometry,
             picked' \in {<<>>} \cup {<<v>> : v \in Values}
      PROVE  FloatingInv'
  <2>1. MenuTyped(menu') /\ ~ menu'.open
    BY <1>t, <1>c, MenuCloses
  <2>2. LayerShape'
    BY <1>c DEF LayerShape
  <2> QED
    BY <1>t, <1>s, <1>c, <2>1, <2>2
<1>1. CASE OnResize
  <2>1. PICK g \in Geometries : geometry' = g /\ layer' = IF menu.open THEN Measured(g) ELSE <<>>
    BY <1>1 DEF OnResize
  <2>2. menu' = menu /\ picked' = picked
    BY <1>1 DEF OnResize
  <2>3. LayerShape' /\ (menu.open <=> layer' # <<>>)
    BY <2>1, MeasuredShape DEF LayerShape
  <2> QED
    BY <1>t, <1>s, <2>1, <2>2, <2>3
<1>2. CASE OnScroll
  <2>1. PICK g \in Geometries :
          /\ geometry' = g
          /\ layer' = IF menu.open THEN <<[layer[1] EXCEPT !.fixed = Fixed(g)]>> ELSE <<>>
    BY <1>2 DEF OnScroll
  <2>2. menu' = menu /\ picked' = picked
    BY <1>2 DEF OnScroll
  <2>3. CASE menu.open
    <3>1. PICK s, p : layer = <<[shift |-> s, panel |-> p, fixed |-> Fixed(geometry)]>>
      BY <1>t, <2>3 DEF LayerShape
    <3>2. layer' = <<[shift |-> s, panel |-> p, fixed |-> Fixed(g)]>>
      BY <2>1, <2>3, <3>1
    <3>3. layer' = <<[shift |-> s, panel |-> p, fixed |-> Fixed(geometry')]>>
      BY <2>1, <3>2
    <3>4. LayerShape'
      BY <3>3, Zenon DEF LayerShape
    <3>5. layer' # <<>>
      BY <3>3
    <3> QED
      BY <1>t, <1>s, <2>1, <2>2, <2>3, <3>4, <3>5
  <2>4. CASE ~ menu.open
    BY <1>t, <1>s, <2>1, <2>2, <2>4 DEF LayerShape
  <2> QED
    BY <2>3, <2>4
<1>3. CASE OpenMenu
  <2>1. PICK i : i \in Int /\ i >= -1 /\ menu' = [menu EXCEPT !.open = TRUE, !.index = i]
    <3>1. CASE menu' = [menu EXCEPT !.open = TRUE, !.index = 0]
      <4>1. 0 \in Int /\ 0 >= -1
        OBVIOUS
      <4> QED
        BY <3>1, <4>1
    <3>2. CASE \E row \in RowOfValue(picked) :
                 menu' = [menu EXCEPT !.open = TRUE, !.index = Rank(row, menu.query)]
      <4>1. PICK row \in RowOfValue(picked) :
              menu' = [menu EXCEPT !.open = TRUE, !.index = Rank(row, menu.query)]
        BY <3>2
      <4>2. Rank(row, menu.query) \in Int /\ Rank(row, menu.query) >= -1
        BY RanksCount
      <4> QED
        BY <4>1, <4>2
    <3> QED
      BY <1>3, <3>1, <3>2 DEF OpenMenu
  <2>2. MenuTyped(menu') /\ menu'.open
    BY <1>t, <2>1 DEF MenuTyped
  <2>3. layer' = Measured(geometry) /\ picked' = picked /\ geometry' = geometry
    BY <1>3 DEF OpenMenu
  <2>4. LayerShape' /\ layer' # <<>>
    BY <2>3, MeasuredShape DEF LayerShape
  <2> QED
    BY <1>t, <1>s, <2>2, <2>3, <2>4
<1>4. CASE CloseMenu
  BY <1>t, <1>c, <1>4 DEF CloseMenu
<1>5. CASE TypeInMenu
  <2>1. PICK q \in Typed \cup {Values} : menu' = [menu EXCEPT !.query = q, !.index = 0]
    BY <1>5 DEF TypeInMenu
  <2>2. q \in SUBSET Values /\ 0 \in Int /\ 0 >= -1
    BY OptionsAre
  <2> QED
    BY <1>5, <1>i, <2>1, <2>2 DEF TypeInMenu
<1>6. CASE ArrowDown
  <2> DEFINE last == Cardinality(MenuRows(menu.query)) - 1
  <2>1. last \in Int /\ last >= -1
    BY RowsAreFew
  <2>2. menu' = [menu EXCEPT !.index = IF menu.index + 1 < last THEN menu.index + 1 ELSE last]
    BY <1>6 DEF ArrowDown
  <2> HIDE DEF last
  <2>3. PICK i \in Int : i = IF menu.index + 1 < last THEN menu.index + 1 ELSE last
    BY <1>t, <2>1
  <2>4. i >= -1
    BY <1>t, <2>1, <2>3
  <2>5. menu' = [menu EXCEPT !.index = i]
    BY <2>2, <2>3
  <2> QED
    BY <1>6, <1>i, <2>4, <2>5 DEF ArrowDown
<1>7. CASE ArrowUp
  <2>1. PICK i \in Int : i = IF menu.index < 1 THEN 0 ELSE menu.index - 1
    BY <1>t
  <2>2. i >= -1 /\ menu' = [menu EXCEPT !.index = i]
    BY <1>t, <1>7, <2>1 DEF ArrowUp
  <2> QED
    BY <1>7, <1>i, <2>2 DEF ArrowUp
<1>8. CASE Hover
  <2>1. PICK row \in MenuRows(menu.query) : menu' = [menu EXCEPT !.index = Rank(row, menu.query)]
    BY <1>8 DEF Hover
  <2>2. PICK i \in Int : i = Rank(row, menu.query) /\ i >= -1
    BY RanksCount
  <2>3. menu' = [menu EXCEPT !.index = i]
    BY <2>1, <2>2
  <2> QED
    BY <1>8, <1>i, <2>2, <2>3 DEF Hover
<1>9. CASE CommitRow
  <2>1. picked' \in {<<>>} \cup {<<v>> : v \in Values}
    BY <1>9, <1>t, OptionsAre DEF CommitRow
  <2> QED
    BY <1>9, <1>c, <2>1 DEF CommitRow
<1>10. CASE SetByParent
  BY <1>10, <1>t, <1>s DEF SetByParent, LayerShape
<1>11. CASE UNCHANGED layerVars
  BY <1>11, <1>t, <1>s DEF layerVars, LayerShape
<1> QED
  BY <1>1, <1>2, <1>3, <1>4, <1>5, <1>6, <1>7, <1>8, <1>9, <1>10, <1>11 DEF FloatingLayersNext

LEMMA FloatingSays ==
  FloatingInv => FloatingLayersTypeOK /\ ClosedForgets /\ FixedFollows /\ LayersFit
<1> SUFFICES ASSUME FloatingInv PROVE FixedFollows /\ LayersFit
  BY DEF FloatingInv
<1>1. FixedFollows
  BY DEF FloatingInv, LayerShape, FixedFollows, FloatingLayersTypeOK
<1>2. GeometryTyped(geometry)
  BY GeometriesAreTyped DEF FloatingInv, FloatingLayersTypeOK
<1>3. ShiftFits(geometry.left, geometry.right, geometry.width)
  BY <1>2, ClampFits DEF GeometryTyped
<1> QED
  BY <1>1, <1>2, <1>3, PanelIsBeside DEF LayersFit

LEMMA FloatingAlways == FloatingLayersSpec => []FloatingInv
  BY FloatingStart, FloatingNext, PTL DEF FloatingLayersSpec

(* A panel never covers its anchor and is inside the window where there is *)
(* any room; a layer is inside the window, to half a pixel, where it can   *)
(* be, and its left edge always (use-viewport-clamp.ts:92-148).            *)
THEOREM LayersAreInTheWindow == FloatingLayersSpec => []LayersFit
  BY FloatingAlways, FloatingSays, PTL

(* A fixed layer is where the window and its anchor want it, whatever has  *)
(* scrolled since it opened (use-anchored-layer.ts:77-90).                 *)
THEOREM FixedLayersFollow == FloatingLayersSpec => []FixedFollows
  BY FloatingAlways, FloatingSays, PTL

(* A menu opens on the row of its value and of no other, so that Enter     *)
(* changes nothing (Select.tsx:112-118).                                   *)
THEOREM MenuOpensOnItsValue == FloatingLayersSpec => OpensOnItsValue
<1> DEFINE Opens == ~ menu.open /\ menu'.open /\ picked # <<>> =>
                      RowAt(menu'.index, menu'.query) = RowOfValue(picked)
<1>1. FloatingInv /\ [FloatingLayersNext]_layerVars => [Opens]_layerVars
  <2> SUFFICES ASSUME FloatingInv, FloatingLayersNext, ~ menu.open, menu'.open, picked # <<>>
               PROVE  RowAt(menu'.index, menu'.query) = RowOfValue(picked)
    OBVIOUS
  <2>t. /\ MenuTyped(menu) /\ picked \in {<<>>} \cup {<<v>> : v \in Values}
        /\ menu.query = Values
    BY DEF FloatingInv, FloatingLayersTypeOK, ClosedForgets, MenuTyped
  <2>1. OpenMenu
    <3>1. menu' = menu \/ OpenMenu
      BY DEF FloatingLayersNext, OnResize, OnScroll, CloseMenu, TypeInMenu, ArrowDown, ArrowUp,
             Hover, CommitRow, SetByParent
    <3> QED
      BY <3>1
  <2>2. PICK v \in Values : picked = <<v>>
    BY <2>t
  <2>3. PICK k \in DOMAIN SelectOptions : SelectOptions[k].value = v
    BY DEF Values
  <2>4. RowOfValue(picked) = {k}
    <3>1. \A i \in DOMAIN SelectOptions : SelectOptions[i].value = SelectOptions[k].value => i = k
      BY FloatingLayersAssumption
    <3>2. \A i \in DOMAIN SelectOptions : picked = <<SelectOptions[i].value>> <=> i = k
      BY <2>2, <2>3, <3>1
    <3> QED
      BY <3>2 DEF RowOfValue
  <2>5. menu' = [menu EXCEPT !.open = TRUE, !.index = Rank(k, Values)]
    BY <2>1, <2>4, <2>t DEF OpenMenu
  <2>6. menu'.index = Rank(k, Values) /\ menu'.query = Values
    BY <2>5, <2>t DEF MenuTyped
  <2>7. k \in MenuRows(Values)
    BY OptionsAre DEF MenuRows
  <2>8. \A i \in MenuRows(Values) : Rank(i, Values) = Rank(k, Values) => i = k
    <3> SUFFICES ASSUME NEW i \in MenuRows(Values), i # k PROVE Rank(i, Values) # Rank(k, Values)
      OBVIOUS
    <3>1. i < k \/ k < i
      BY <2>7, RowsAreFew
    <3> QED
      BY <3>1, <2>7, RanksDiffer, RanksCount
  <2> QED
    BY <2>4, <2>6, <2>7, <2>8 DEF RowAt
<1> QED
  BY <1>1, FloatingAlways, PTL DEF FloatingLayersSpec, OpensOnItsValue

-----------------------------------------------------------------------------
(* The theme: while the store is seen, what is read is what was shown      *)

ThemeInv == ThemeTypeOK /\ ThemeIsApplied

LEMMA ResolvesInto ==
  ASSUME NEW p \in Preferences, NEW d \in BOOLEAN
  PROVE  /\ Resolve(p, d) \in Resolved
         /\ Snapshot(p, d) \in [preference : Preferences, resolved : Resolved]
         /\ Snapshot(p, d).preference = p /\ Snapshot(p, d).resolved = Resolve(p, d)
  BY DEF Resolve, Snapshot, Preferences, Resolved

LEMMA ReadsAPreference ==
  ASSUME NEW s, NEW mem \in Preferences, NEW d, NEW acc
  PROVE  ReadOf(s, mem, d, acc) \in Preferences
  BY DEF ReadOf, Preferences

LEMMA ThemeStart == ThemeInit => ThemeInv
<1> SUFFICES ASSUME ThemeInit PROVE ThemeInv
  OBVIOUS
<1>1. memory \in Preferences /\ osDark \in BOOLEAN /\ access = "all" /\ desynced = FALSE
  BY DEF ThemeInit, Preferences
<1>2. ReadPreference \in Preferences
  BY <1>1, ReadsAPreference DEF ReadPreference
<1>3. attribute = Resolve(ReadPreference, osDark)
  BY <1>1 DEF ThemeInit, Bootstrap, ReadPreference, ReadOf
<1>4. /\ themeShown \in [preference : Preferences, resolved : Resolved]
      /\ themeShown.preference = ReadPreference /\ themeShown.resolved = attribute
      /\ attribute \in Resolved
  BY <1>1, <1>2, <1>3, ResolvesInto DEF ThemeInit
<1>5. ThemeTypeOK
  BY <1>1, <1>4 DEF ThemeInit, ThemeTypeOK
<1> QED
  BY <1>3, <1>4, <1>5 DEF ThemeInv, ThemeIsApplied

LEMMA ThemeStep == ThemeInv /\ [ThemeNext]_themeVars => ThemeInv'
<1> SUFFICES ASSUME ThemeInv, [ThemeNext]_themeVars PROVE ThemeInv'
  OBVIOUS
<1>0. ThemeTypeOK /\ ThemeIsApplied
  BY DEF ThemeInv
<1>r. ReadPreference \in Preferences
  BY <1>0, ReadsAPreference DEF ThemeTypeOK, ReadPreference
<1>1. CASE ThemeReload
  <2>1. /\ memory' = "dark" /\ desynced' = FALSE /\ osDark' = osDark /\ access' = access
        /\ themeStored' = themeStored /\ unseen' = (access = "nothing")
        /\ attribute' = Bootstrap(themeStored, access, osDark)
        /\ themeShown' = Snapshot(ReadOf(themeStored, "dark", FALSE, access), osDark)
    BY <1>1 DEF ThemeReload, Load
  <2>2. "dark" \in Preferences /\ osDark \in BOOLEAN
    BY <1>0 DEF Preferences, ThemeTypeOK
  <2>3. ReadOf(themeStored, "dark", FALSE, access) \in Preferences
    BY <2>2, ReadsAPreference
  <2>4. ReadPreference' = ReadOf(themeStored, "dark", FALSE, access)
    BY <2>1 DEF ReadPreference
  <2>5. access # "nothing" =>
          Bootstrap(themeStored, access, osDark)
            = Resolve(ReadOf(themeStored, "dark", FALSE, access), osDark)
    BY DEF Bootstrap, ReadOf
  <2>6. Bootstrap(themeStored, access, osDark) \in Resolved \cup {"none"}
    BY <2>2, <2>3, <2>5, ResolvesInto DEF Bootstrap
  <2>7. ThemeTypeOK'
    BY <1>0, <2>1, <2>2, <2>3, <2>6, ResolvesInto DEF ThemeTypeOK
  <2>8. ThemeIsApplied'
    BY <2>1, <2>2, <2>3, <2>4, <2>5, ResolvesInto DEF ThemeIsApplied
  <2> QED
    BY <2>1, <2>7, <2>8 DEF ThemeInv
<1>2. ASSUME NEW next \in Preferences, SetPreference(next)
      PROVE  /\ ThemeInv' /\ themeShown'.preference = next
             /\ attribute' = themeShown'.resolved
  <2>1. /\ memory' = next /\ attribute' = Resolve(next, osDark)
        /\ osDark' = osDark /\ access' = access /\ unseen' = FALSE
        /\ IF access = "all" THEN themeStored' = next /\ desynced' = FALSE
           ELSE desynced' = TRUE /\ UNCHANGED themeStored
        /\ themeShown' = Snapshot(ReadOf(themeStored', next, desynced', access), osDark)
    BY <1>2 DEF SetPreference
  <2>2. ReadOf(themeStored', next, desynced', access) = next
    BY <2>1 DEF ReadOf
  <2>3. ReadPreference' = next
    BY <2>1, <2>2 DEF ReadPreference
  <2>4. osDark \in BOOLEAN
    BY <1>0 DEF ThemeTypeOK
  <2>5. /\ themeShown' \in [preference : Preferences, resolved : Resolved]
        /\ themeShown'.preference = next /\ themeShown'.resolved = Resolve(next, osDark)
        /\ Resolve(next, osDark) \in Resolved
    BY <2>1, <2>2, <2>4, ResolvesInto
  <2>6. ThemeTypeOK'
    <3>1. themeStored' \in Preferences \cup {"absent", "junk"} /\ desynced' \in BOOLEAN
      BY <1>0, <2>1 DEF ThemeTypeOK
    <3> QED
      BY <1>0, <2>1, <2>5, <3>1 DEF ThemeTypeOK
  <2>7. ThemeIsApplied'
    BY <2>1, <2>3, <2>5 DEF ThemeIsApplied
  <2> QED
    BY <2>1, <2>5, <2>6, <2>7 DEF ThemeInv
<1>3. CASE Toggle
  <2>1. ThemeCycle[themeShown.preference] \in Preferences
    BY <1>0 DEF ThemeTypeOK, ThemeCycle, Preferences
  <2> QED
    BY <1>2, <1>3, <2>1 DEF Toggle
<1>4. CASE Choose
  BY <1>2, <1>4 DEF Choose
<1>5. CASE OnSystemChange
  <2>1. /\ osDark' = ~ osDark /\ osDark \in BOOLEAN /\ osDark' \in BOOLEAN
        /\ UNCHANGED <<themeStored, memory, desynced, access, unseen>>
    BY <1>0, <1>5 DEF OnSystemChange, ThemeTypeOK
  <2>2. ReadPreference' = ReadPreference
    BY <2>1 DEF ReadPreference
  <2>3. CASE ReadPreference = "system"
    <3>1. /\ attribute' = Resolve("system", osDark')
          /\ themeShown' = Snapshot("system", osDark')
      BY <1>5, <2>3 DEF OnSystemChange
    <3>2. "system" \in Preferences
      BY DEF Preferences
    <3>3. /\ attribute' \in Resolved /\ themeShown'.preference = "system"
          /\ themeShown'.resolved = attribute'
          /\ themeShown' \in [preference : Preferences, resolved : Resolved]
      BY <2>1, <3>1, <3>2, ResolvesInto
    <3>4. ThemeTypeOK'
      BY <1>0, <2>1, <3>3 DEF ThemeTypeOK
    <3>5. ThemeIsApplied'
      BY <2>1, <2>2, <2>3, <3>1, <3>3 DEF ThemeIsApplied
    <3> QED
      BY <1>0, <2>1, <3>4, <3>5 DEF ThemeInv
  <2>4. CASE ReadPreference # "system"
    <3>1. UNCHANGED <<attribute, themeShown>>
      BY <1>5, <2>4 DEF OnSystemChange
    <3>2. ~ unseen => /\ themeShown.preference = ReadPreference
                      /\ Resolve(ReadPreference, osDark') = Resolve(ReadPreference, osDark)
      BY <1>0, <2>4 DEF ThemeIsApplied, Resolve
    <3>3. ThemeIsApplied'
      BY <1>0, <2>1, <2>2, <3>1, <3>2 DEF ThemeIsApplied
    <3>4. ThemeTypeOK'
      BY <1>0, <2>1, <3>1 DEF ThemeTypeOK
    <3> QED
      BY <1>0, <2>1, <3>3, <3>4 DEF ThemeInv
  <2> QED
    BY <2>3, <2>4
<1>6. CASE Rerender
  <2>1. /\ themeShown' = Snapshot(ReadPreference, osDark)
        /\ UNCHANGED <<themeStored, memory, desynced, access, osDark, attribute, unseen>>
    BY <1>6 DEF Rerender
  <2>2. ReadPreference' = ReadPreference /\ osDark \in BOOLEAN
    BY <1>0, <2>1 DEF ReadPreference, ThemeTypeOK
  <2>3. /\ themeShown' \in [preference : Preferences, resolved : Resolved]
        /\ themeShown'.preference = ReadPreference
        /\ themeShown'.resolved = Resolve(ReadPreference, osDark)
    BY <1>r, <2>1, <2>2, ResolvesInto
  <2>4. ThemeTypeOK'
    BY <1>0, <2>1, <2>3 DEF ThemeTypeOK
  <2>5. ThemeIsApplied'
    BY <1>0, <2>1, <2>2, <2>3 DEF ThemeIsApplied
  <2> QED
    BY <1>0, <2>1, <2>4, <2>5 DEF ThemeInv
<1>7. CASE AccessChanges
  <2>1. /\ access' \in {"all", "reads", "nothing"}
        /\ unseen' = (unseen \/ "nothing" \in {access, access'})
        /\ UNCHANGED <<themeStored, memory, desynced, osDark, attribute, themeShown>>
    BY <1>7 DEF AccessChanges
  <2>2. unseen' \in BOOLEAN
    BY <1>0, <2>1 DEF ThemeTypeOK
  <2>3. ~ unseen' => ~ unseen /\ access # "nothing" /\ access' # "nothing"
    BY <2>1
  <2>4. ~ unseen' => ReadPreference' = ReadPreference
    BY <2>1, <2>3 DEF ReadPreference, ReadOf
  <2>5. ThemeTypeOK'
    BY <1>0, <2>1, <2>2 DEF ThemeTypeOK
  <2>6. ThemeIsApplied'
    BY <1>0, <2>1, <2>3, <2>4 DEF ThemeIsApplied
  <2> QED
    BY <2>3, <2>5, <2>6 DEF ThemeInv
<1>8. CASE OtherTab
  BY <1>0, <1>8 DEF OtherTab, ThemeInv, ThemeTypeOK, ThemeIsApplied
<1>9. CASE UNCHANGED themeVars
  BY <1>0, <1>9 DEF themeVars, ThemeInv, ThemeTypeOK, ThemeIsApplied, ReadPreference
<1> QED
  BY <1>1, <1>3, <1>4, <1>5, <1>6, <1>7, <1>8, <1>9 DEF ThemeNext

(* The page carries the theme that the control shows, and that is the      *)
(* preference as it resolves now (ThemeProvider.tsx:10-14), unless another *)
(* tab has written the store, or the browser blocked it, since.            *)
THEOREM CarriesWhatItShows == ThemeSpec => []ThemeIsApplied
<1>1. ThemeSpec => []ThemeInv
  BY ThemeStart, ThemeStep, PTL DEF ThemeSpec
<1> QED
  BY <1>1, PTL DEF ThemeInv

(* A press of the control shows the next mode whatever the store does      *)
(* (ThemeProvider.tsx:77-83).                                              *)
THEOREM PressSwitches == ThemeSpec => ToggleSwitches
<1> DEFINE Switches == Toggle => /\ themeShown'.preference = ThemeCycle[themeShown.preference]
                                 /\ attribute' = themeShown'.resolved
<1>1. ThemeInv => [Switches]_themeVars
  <2> SUFFICES ASSUME ThemeInv, Toggle
               PROVE  /\ themeShown'.preference = ThemeCycle[themeShown.preference]
                      /\ attribute' = themeShown'.resolved
    OBVIOUS
  <2> DEFINE next == ThemeCycle[themeShown.preference]
  <2>1. next \in Preferences /\ osDark \in BOOLEAN
    BY DEF ThemeInv, ThemeTypeOK, ThemeCycle, Preferences
  <2>2. ReadOf(themeStored', next, desynced', access) = next
    <3>1. IF access = "all" THEN themeStored' = next /\ desynced' = FALSE
          ELSE desynced' = TRUE /\ UNCHANGED themeStored
      BY DEF Toggle, SetPreference
    <3> HIDE DEF next
    <3> QED
      BY <2>1, <3>1 DEF ReadOf
  <2>3. themeShown' = Snapshot(next, osDark) /\ attribute' = Resolve(next, osDark)
    BY <2>2 DEF Toggle, SetPreference
  <2> HIDE DEF next
  <2>4. themeShown'.preference = next /\ attribute' = themeShown'.resolved
    BY <2>1, <2>3, ResolvesInto
  <2> QED
    BY <2>4 DEF next
<1>2. ThemeSpec => []ThemeInv
  BY ThemeStart, ThemeStep, PTL DEF ThemeSpec
<1> QED
  BY <1>1, <1>2, PTL DEF ToggleSwitches

-----------------------------------------------------------------------------
(* The table's tools                                                       *)

ToolsInv == TableToolsTypeOK /\ MenuFocusIsAnItem /\ ComparablesAreItsOwn

LEMMA OneAtMost ==
  ASSUME NEW S, NEW s \in AtMostOne(S)
  PROVE  s # <<>> => s[1] \in S /\ s = <<s[1]>>
  BY DEF AtMostOne

LEMMA AtMostOneOf ==
  ASSUME NEW S, NEW x \in S
  PROVE  <<x>> \in AtMostOne(S) /\ <<x>> # <<>> /\ <<x>>[1] = x
  BY DEF AtMostOne

LEMMA MenusHaveItems ==
  ASSUME NEW r
  PROVE  Len(MenuItems(r)) \in {3, 4}
<1>1. Len(<<"edit", "split", "exclude">>) = 3 /\ Len(<<"explain">>) = 1 /\ Len(<<>>) = 0
  OBVIOUS
<1>2. <<"edit", "split", "exclude">> \in Seq({"edit", "split", "exclude", "explain"})
  OBVIOUS
<1>3. <<"explain">> \in Seq({"edit", "split", "exclude", "explain"})
  OBVIOUS
<1>4. <<>> \in Seq({"edit", "split", "exclude", "explain"})
  OBVIOUS
<1> QED
  BY <1>1, <1>2, <1>3, <1>4, ConcatProperties DEF MenuItems

LEMMA ExplainsARow ==
  ASSUME NEW S, NEW open \in AtMostOne([row : S, explain : BOOLEAN]), NEW rowsThere
  PROVE  /\ Explaining(open, rowsThere) \in AtMostOne(rowsThere)
         /\ Explaining(open, rowsThere) \in AtMostOne(S)
<1>1. CASE open # <<>> /\ open[1].explain /\ open[1].row \in rowsThere
  <2>1. open[1] \in [row : S, explain : BOOLEAN]
    BY <1>1, OneAtMost
  <2> QED
    BY <1>1, <2>1, AtMostOneOf DEF Explaining
<1>2. CASE ~ (open # <<>> /\ open[1].explain /\ open[1].row \in rowsThere)
  BY <1>2 DEF Explaining, AtMostOne
<1> QED
  BY <1>1, <1>2

\* The effect of the page that asks for comparables, on what is shown.
LEMMA ExplainKeepsItsOwn ==
  ASSUME TableToolsTypeOK, ComparablesAreItsOwn,
         NEW open \in AtMostOne([row : Txns, explain : BOOLEAN]), NEW rowsThere,
         Explain(open, rowsThere), tableRows' = rowsThere
  PROVE  /\ inspected' = open /\ ComparablesAreItsOwn'
         /\ explained' \in AtMostOne(Txns) /\ comparing' \in AtMostOne(Txns)
<1>1. inspected' = open /\ Explaining(inspected, tableRows)' = Explaining(open, rowsThere)
  BY DEF Explain, Explaining
<1>2. CASE Explaining(open, rowsThere) = Explaining(inspected, tableRows)
  BY <1>1, <1>2 DEF Explain, ComparablesAreItsOwn, TableToolsTypeOK
<1>3. CASE Explaining(open, rowsThere) # Explaining(inspected, tableRows)
  <2>1. /\ comparing' = Explaining(open, rowsThere)
        /\ explained' = IF comparing' = <<>> THEN <<>> ELSE explained
    BY <1>3 DEF Explain
  <2>2. comparing' \in AtMostOne(Txns)
    BY <2>1, ExplainsARow
  <2>3. <<>> \in AtMostOne(Txns) /\ explained \in AtMostOne(Txns)
    BY DEF AtMostOne, TableToolsTypeOK
  <2> QED
    BY <1>1, <2>1, <2>2, <2>3 DEF ComparablesAreItsOwn
<1> QED
  BY <1>2, <1>3

LEMMA ToolsStart == TableToolsInit => ToolsInv
  BY DEF TableToolsInit, ToolsInv, TableToolsTypeOK, MenuFocusIsAnItem, ComparablesAreItsOwn,
         AtMostOne

LEMMA ToolsNext == ToolsInv /\ [TableToolsNext]_toolVars => ToolsInv'
<1> SUFFICES ASSUME ToolsInv, [TableToolsNext]_toolVars PROVE ToolsInv'
  OBVIOUS
<1>0. TableToolsTypeOK /\ MenuFocusIsAnItem /\ ComparablesAreItsOwn
  BY DEF ToolsInv
<1> DEFINE MenuIsOn(m) == m # <<>> => m[1].item < Len(MenuItems(m[1].row))
           Chips(rowsThere) ==
             AtMostOne([row : rowsThere, open : BOOLEAN, query : SUBSET Categories])
           Menus(rowsThere) == AtMostOne([row : rowsThere, item : 0..3])
           Opened == AtMostOne([row : Txns, explain : BOOLEAN])
<1>t. /\ tableRows \subseteq Txns /\ focused \in AtMostOne(tableRows)
      /\ order \in AtMostOne([column : Columns, direction : {"asc", "desc"}])
      /\ rowMenu \in Menus(tableRows) /\ chip \in Chips(tableRows)
      /\ inspected \in Opened /\ explained \in AtMostOne(Txns) /\ comparing \in AtMostOne(Txns)
      /\ MenuIsOn(rowMenu)
  BY <1>0 DEF TableToolsTypeOK, MenuFocusIsAnItem
\* A step that leaves the order, the rows and what is compared as they are.
<1>s. ASSUME tableRows' \subseteq Txns, focused' \in AtMostOne(tableRows'),
             order' \in AtMostOne([column : Columns, direction : {"asc", "desc"}]),
             rowMenu' \in Menus(tableRows'), chip' \in Chips(tableRows'), MenuIsOn(rowMenu'),
             inspected' \in Opened, explained' \in AtMostOne(Txns),
             comparing' \in AtMostOne(Txns), ComparablesAreItsOwn'
      PROVE  ToolsInv'
  BY <1>s DEF ToolsInv, TableToolsTypeOK, MenuFocusIsAnItem
<1>e. ASSUME UNCHANGED <<tableRows, explainVars>>
      PROVE  /\ tableRows' = tableRows /\ inspected' = inspected /\ explained' = explained
             /\ comparing' = comparing /\ ComparablesAreItsOwn'
  BY <1>0, <1>e DEF explainVars, ComparablesAreItsOwn, Explaining
<1>o. ASSUME NEW r \in tableRows, NEW x \in BOOLEAN, Inspect(r, x), tableRows' = tableRows
      PROVE  /\ inspected' \in Opened /\ explained' \in AtMostOne(Txns)
             /\ comparing' \in AtMostOne(Txns) /\ ComparablesAreItsOwn'
  <2>1. [row |-> r, explain |-> x] \in [row : Txns, explain : BOOLEAN]
    BY <1>t
  <2>2. <<[row |-> r, explain |-> x]>> \in Opened
    BY <2>1, AtMostOneOf
  <2>3. Explain(<<[row |-> r, explain |-> x]>>, tableRows)
    BY <1>o DEF Inspect
  <2> QED
    BY <1>0, <1>o, <2>2, <2>3, ExplainKeepsItsOwn
<1> HIDE DEF MenuIsOn, Chips, Menus, Opened
<1>1. CASE OnSortChange
  <2>1. PICK column \in Columns : order' = SortedBy(column)
    BY <1>1 DEF OnSortChange
  <2>2. \A way \in {"asc", "desc"} :
          [column |-> column, direction |-> way] \in [column : Columns, direction : {"asc", "desc"}]
    OBVIOUS
  <2>3. order' \in AtMostOne([column : Columns, direction : {"asc", "desc"}])
    BY <2>1, <2>2, AtMostOneOf DEF SortedBy, AtMostOne
  <2> QED
    BY <1>1, <1>t, <1>s, <1>e, <2>3 DEF OnSortChange, rowVars
<1>2. CASE ComparablesArrive
  <2>1. /\ comparing' = <<>> /\ comparing # <<>>
        /\ explained' = comparing \/ explained' = <<>>
        /\ tableRows' = tableRows /\ order' = order /\ inspected' = inspected
        /\ focused' = focused /\ rowMenu' = rowMenu /\ chip' = chip
    BY <1>2 DEF ComparablesArrive, rowVars
  <2>2. <<>> \in AtMostOne(Txns)
    BY DEF AtMostOne
  <2>3. ComparablesAreItsOwn'
    BY <1>0, <2>1 DEF ComparablesAreItsOwn, Explaining
  <2> QED
    BY <1>t, <1>s, <2>1, <2>2, <2>3
<1>3. CASE StopInspecting
  <2>1. /\ Explain(<<>>, tableRows) /\ tableRows' = tableRows /\ order' = order
        /\ focused' = focused /\ rowMenu' = rowMenu /\ chip' = chip
    BY <1>3 DEF StopInspecting, rowVars
  <2>2. <<>> \in AtMostOne([row : Txns, explain : BOOLEAN])
    BY DEF AtMostOne
  <2>3. /\ inspected' = <<>> /\ ComparablesAreItsOwn'
        /\ explained' \in AtMostOne(Txns) /\ comparing' \in AtMostOne(Txns)
    BY <1>0, <2>1, <2>2, ExplainKeepsItsOwn
  <2> QED
    BY <1>t, <1>s, <2>1, <2>2, <2>3 DEF Opened
<1>4. CASE ListChanges
  <2>1. /\ tableRows' \subseteq Txns /\ Explain(inspected, tableRows') /\ order' = order
        /\ focused' = IF focused # <<>> /\ focused[1] \in tableRows' THEN focused ELSE <<>>
        /\ rowMenu' = IF rowMenu # <<>> /\ rowMenu[1].row \in tableRows' THEN rowMenu ELSE <<>>
        /\ chip' = IF chip # <<>> /\ chip[1].row \in tableRows' THEN chip ELSE <<>>
    BY <1>4 DEF ListChanges
  <2>2. /\ inspected' = inspected /\ ComparablesAreItsOwn'
        /\ explained' \in AtMostOne(Txns) /\ comparing' \in AtMostOne(Txns)
    BY <1>0, <1>t, <2>1, ExplainKeepsItsOwn DEF Opened
  <2>3. focused' \in AtMostOne(tableRows')
    BY <1>t, <2>1, OneAtMost DEF AtMostOne
  <2>4. rowMenu' \in Menus(tableRows') /\ MenuIsOn(rowMenu')
    <3>1. CASE rowMenu' = <<>>
      BY <3>1 DEF Menus, MenuIsOn, AtMostOne
    <3>2. CASE rowMenu' = rowMenu /\ rowMenu # <<>> /\ rowMenu[1].row \in tableRows'
      <4>1. rowMenu = <<rowMenu[1]>> /\ rowMenu[1] \in [row : tableRows, item : 0..3]
        BY <1>t, <3>2, OneAtMost DEF Menus
      <4>2. rowMenu[1] \in [row : tableRows', item : 0..3]
        BY <3>2, <4>1
      <4> QED
        BY <1>t, <3>2, <4>1, <4>2, AtMostOneOf DEF Menus
    <3> QED
      BY <2>1, <3>1, <3>2
  <2>5. chip' \in Chips(tableRows')
    <3>1. CASE chip' = <<>>
      BY <3>1 DEF Chips, AtMostOne
    <3>2. CASE chip' = chip /\ chip # <<>> /\ chip[1].row \in tableRows'
      <4>1. /\ chip = <<chip[1]>>
            /\ chip[1] \in [row : tableRows, open : BOOLEAN, query : SUBSET Categories]
        BY <1>t, <3>2, OneAtMost DEF Chips
      <4>2. chip[1] \in [row : tableRows', open : BOOLEAN, query : SUBSET Categories]
        BY <3>2, <4>1
      <4> QED
        BY <3>2, <4>1, <4>2, AtMostOneOf DEF Chips
    <3> QED
      BY <2>1, <3>1, <3>2
  <2> QED
    BY <1>t, <1>s, <2>1, <2>2, <2>3, <2>4, <2>5
<1>5. CASE FocusRow
  BY <1>5, <1>t, <1>s, <1>e, AtMostOneOf DEF FocusRow
<1>6. CASE OnTableKeyDown
  <2>1. PICK s \in RowBelow(focused[1]) \cup RowAbove(focused[1]) : focused' = <<s>>
    BY <1>6 DEF OnTableKeyDown
  <2>2. s \in tableRows
    BY DEF RowBelow, RowAbove
  <2> QED
    BY <1>6, <1>t, <1>s, <1>e, <2>1, <2>2, AtMostOneOf DEF OnTableKeyDown
<1>7. CASE OpenRow
  BY <1>7, <1>t, <1>s, <1>o DEF OpenRow, rowVars
<1>8. CASE ToggleRowMenu
  <2>1. PICK r \in tableRows :
          rowMenu' = IF rowMenu # <<>> /\ rowMenu[1].row = r THEN <<>>
                     ELSE <<[row |-> r, item |-> 0]>>
    BY <1>8 DEF ToggleRowMenu
  <2>2. [row |-> r, item |-> 0] \in [row : tableRows, item : 0..3]
    OBVIOUS
  <2>3. 0 < Len(MenuItems(r))
    BY MenusHaveItems
  <2>4. rowMenu' \in Menus(tableRows) /\ MenuIsOn(rowMenu')
    BY <2>1, <2>2, <2>3, AtMostOneOf DEF Menus, MenuIsOn, AtMostOne
  <2> QED
    BY <1>8, <1>t, <1>s, <1>e, <2>4 DEF ToggleRowMenu
<1>9. CASE OnMenuKeyDown
  <2> DEFINE m == rowMenu[1]
             n == Len(MenuItems(m.row))
  <2>1. PICK i \in {(m.item + 1) % n, (m.item - 1 + n) % n, 0, n - 1} :
          rowMenu' = <<[m EXCEPT !.item = i]>>
    BY <1>9 DEF OnMenuKeyDown
  <2>2. /\ m \in [row : tableRows, item : 0..3] /\ m.item < n /\ rowMenu # <<>>
    BY <1>9, <1>t, OneAtMost DEF OnMenuKeyDown, Menus, MenuIsOn
  <2>3. n \in {3, 4}
    BY MenusHaveItems
  <2> HIDE DEF n
  <2>4. i \in 0..3 /\ i < n
    <3>1. CASE n = 3
      BY <2>1, <2>2, <3>1
    <3>2. CASE n = 4
      BY <2>1, <2>2, <3>2
    <3> QED
      BY <2>3, <3>1, <3>2
  <2>5. /\ [m EXCEPT !.item = i] \in [row : tableRows, item : 0..3]
        /\ [m EXCEPT !.item = i].item = i /\ [m EXCEPT !.item = i].row = m.row
    BY <2>2, <2>4
  <2>6. rowMenu' \in Menus(tableRows) /\ MenuIsOn(rowMenu')
    BY <2>1, <2>4, <2>5, AtMostOneOf DEF Menus, MenuIsOn, n
  <2> QED
    BY <1>9, <1>t, <1>s, <1>e, <2>6 DEF OnMenuKeyDown
<1>10. CASE CloseRowMenu
  BY <1>10, <1>t, <1>s, <1>e DEF CloseRowMenu, Menus, MenuIsOn, AtMostOne
<1>11. CASE PickMenuItem
  <2>1. /\ rowMenu # <<>> /\ rowMenu' = <<>> /\ tableRows' = tableRows /\ order' = order
        /\ focused' = focused /\ chip' = chip
    BY <1>11 DEF PickMenuItem
  <2>2. rowMenu[1].row \in tableRows
    BY <1>t, <2>1, OneAtMost DEF Menus
  <2>3. rowMenu' \in Menus(tableRows) /\ MenuIsOn(rowMenu')
    BY <2>1 DEF Menus, MenuIsOn, AtMostOne
  <2>4. \/ \E x \in BOOLEAN : Inspect(rowMenu[1].row, x)
        \/ UNCHANGED explainVars
    BY <1>11 DEF PickMenuItem
  <2>5. /\ inspected' \in Opened /\ explained' \in AtMostOne(Txns)
        /\ comparing' \in AtMostOne(Txns) /\ ComparablesAreItsOwn'
    BY <1>t, <1>o, <1>e, <2>1, <2>2, <2>4
  <2> QED
    BY <1>t, <1>s, <2>1, <2>3, <2>5
<1>12. CASE OpenChip
  <2>1. PICK r \in tableRows :
          chip' = <<[row |-> r, open |-> TRUE,
                     query |-> IF chip # <<>> /\ chip[1].row = r THEN chip[1].query
                               ELSE Categories]>>
    BY <1>12 DEF OpenChip
  <2>2. chip # <<>> => chip[1].query \in SUBSET Categories
    BY <1>t, OneAtMost DEF Chips
  <2>3. chip' \in Chips(tableRows)
    BY <2>1, <2>2, AtMostOneOf DEF Chips
  <2> QED
    BY <1>12, <1>t, <1>s, <1>e, <2>3 DEF OpenChip
<1>13. CASE UseChip
  <2>1. chip[1] \in [row : tableRows, open : BOOLEAN, query : SUBSET Categories]
    BY <1>13, <1>t, OneAtMost DEF UseChip, Chips
  <2>2. ASSUME NEW q \in ChipQueries, chip' = <<[chip[1] EXCEPT !.query = q]>>
        PROVE  chip' \in Chips(tableRows)
    <3>1. q \in SUBSET Categories
      BY TableToolsAssumption
    <3>2. [chip[1] EXCEPT !.query = q]
            \in [row : tableRows, open : BOOLEAN, query : SUBSET Categories]
      BY <2>1, <3>1
    <3> QED
      BY <2>2, <3>2, AtMostOneOf DEF Chips
  <2>3. ASSUME chip' = <<[chip[1] EXCEPT !.open = FALSE]>>
        PROVE  chip' \in Chips(tableRows)
    <3>1. [chip[1] EXCEPT !.open = FALSE]
            \in [row : tableRows, open : BOOLEAN, query : SUBSET Categories]
      BY <2>1
    <3> QED
      BY <2>3, <3>1, AtMostOneOf DEF Chips
  <2>4. chip' \in Chips(tableRows)
    BY <1>13, <2>2, <2>3 DEF UseChip, Chips, AtMostOne
  <2> QED
    BY <1>13, <1>t, <1>s, <1>e, <2>4 DEF UseChip
<1>14. CASE SwitchOrg
  <2>1. /\ comparing' = Explaining(inspected, tableRows) /\ explained' = explained
        /\ tableRows' = tableRows /\ order' = order /\ inspected' = inspected
        /\ focused' = focused /\ rowMenu' = rowMenu /\ chip' = chip
    BY <1>14 DEF SwitchOrg, rowVars
  <2>2. comparing' \in AtMostOne(Txns)
    BY <1>t, <2>1, ExplainsARow DEF Opened
  <2>3. ComparablesAreItsOwn'
    BY <1>0, <2>1 DEF ComparablesAreItsOwn, Explaining
  <2> QED
    BY <1>t, <1>s, <2>1, <2>2, <2>3
<1>15. CASE UNCHANGED toolVars
  BY <1>15, <1>t, <1>s, <1>e DEF toolVars, explainVars
<1> QED
  BY <1>1, <1>2, <1>3, <1>4, <1>5, <1>6, <1>7, <1>8, <1>9, <1>10, <1>11, <1>12, <1>13, <1>14,
     <1>15 DEF TableToolsNext

(* An explanation shows its own comparables or none once no fetch is under *)
(* way, whatever was opened in between (TransactionsView.tsx:380-400).     *)
THEOREM ComparesItsOwn == TableToolsSpec => []ComparablesAreItsOwn
<1>1. TableToolsSpec => []ToolsInv
  BY ToolsStart, ToolsNext, PTL DEF TableToolsSpec
<1> QED
  BY <1>1, PTL DEF ToolsInv

-----------------------------------------------------------------------------
(* The saved views (SavedViews): what is adrift is the history's to say    *)

ViewsInv == SavedViewsTypeOK /\ ViewsAreStored

LEMMA OneMoreView ==
  ASSUME viewsMade \in 0..MaxViews, viewsMade < MaxViews,
         NEW s \in Seq(1..MaxViews)
  PROVE  /\ viewsMade + 1 \in 0..MaxViews /\ viewsMade + 1 \in 1..MaxViews
         /\ Append(s, viewsMade + 1) \in Seq(1..MaxViews)
<1>0. MaxViews \in Nat
  BY SavedViewsAssumption
<1>1. viewsMade + 1 \in 0..MaxViews /\ viewsMade + 1 \in 1..MaxViews
  BY <1>0
<1> QED
  BY <1>1

LEMMA ViewsStart == SavedViewsInit => ViewsInv
<1> SUFFICES ASSUME SavedViewsInit PROVE ViewsInv
  OBVIOUS
<1>0. MaxViews \in Nat
  BY SavedViewsAssumption
<1>1. <<>> \in Seq(1..MaxViews) /\ 0 \in 0..MaxViews
  BY <1>0
<1>2. viewStore \in [ViewOwners -> Seq(1..MaxViews)] /\ viewStore[owner] = views
  BY <1>1 DEF SavedViewsInit
<1> QED
  BY <1>1, <1>2 DEF SavedViewsInit, ViewsInv, SavedViewsTypeOK, ViewsAreStored

LEMMA ViewsNext == ViewsInv /\ [SavedViewsNext]_viewVars => ViewsInv'
<1> SUFFICES ASSUME ViewsInv, [SavedViewsNext]_viewVars PROVE ViewsInv'
  OBVIOUS
<1> USE DEF ViewsInv, SavedViewsTypeOK, ViewsAreStored
<1>1. CASE SaveView
  <2>1. /\ viewsMade + 1 \in 1..MaxViews /\ views' \in Seq(1..MaxViews)
        /\ viewsMade' \in 0..MaxViews /\ owner' = owner
    BY <1>1, OneMoreView DEF SaveView
  <2>2. CASE viewStore' = [viewStore EXCEPT ![owner] = views'] /\ adrift' = FALSE
    <3>1. viewStore' \in [ViewOwners -> Seq(1..MaxViews)] /\ viewStore'[owner] = views'
      BY <2>1, <2>2
    <3> QED
      BY <2>1, <2>2, <3>1
  <2>3. CASE adrift' = TRUE /\ UNCHANGED viewStore
    BY <2>1, <2>3
  <2> QED
    BY <1>1, <2>2, <2>3 DEF SaveView
<1>2. CASE SavedElsewhere
  <2>1. PICK o \in ViewOwners :
          /\ viewStore' = [viewStore EXCEPT ![o] = Append(@, viewsMade + 1)]
          /\ adrift' = (adrift \/ o = owner)
    BY <1>2 DEF SavedElsewhere
  <2>2. /\ viewsMade' \in 0..MaxViews /\ owner' = owner /\ views' = views
        /\ viewsMade < MaxViews
    BY <1>2, OneMoreView DEF SavedElsewhere
  <2>3. viewStore[o] \in Seq(1..MaxViews)
    OBVIOUS
  <2>4. Append(viewStore[o], viewsMade + 1) \in Seq(1..MaxViews)
    BY <2>2, <2>3, OneMoreView
  <2>5. viewStore' \in [ViewOwners -> Seq(1..MaxViews)]
    BY <2>1, <2>4
  <2>6. adrift' \in BOOLEAN
    BY <2>1
  <2>7. o # owner => viewStore'[owner] = viewStore[owner]
    BY <2>1
  <2> QED
    BY <2>1, <2>2, <2>5, <2>6, <2>7
<1>3. CASE ReadViews
  BY <1>3 DEF ReadViews
<1>4. CASE UNCHANGED viewVars
  BY <1>4 DEF viewVars
<1> QED
  BY <1>1, <1>2, <1>3, <1>4 DEF SavedViewsNext

(* The views offered are the organization's that the browser keeps         *)
(* (use-saved-views.ts), unless the last one could not be stored or        *)
(* another tab has saved one since they were read.                         *)
THEOREM OffersWhatIsKept == SavedViewsSpec => []ViewsAreStored
<1>1. SavedViewsSpec => []ViewsInv
  BY ViewsStart, ViewsNext, PTL DEF SavedViewsSpec
<1> QED
  BY <1>1, PTL DEF ViewsInv

(* No saved view is lost, except that the page writes back what it had     *)
(* read over what another tab has saved since (use-saved-views.ts:49-62).  *)
THEOREM ViewsAreNotLost == SavedViewsSpec => ViewsOnlyGrow
<1> DEFINE Grow == ~ adrift => \A o \in ViewOwners : \A i \in DOMAIN viewStore[o] :
                     \E j \in DOMAIN viewStore'[o] : viewStore'[o][j] = viewStore[o][i]
<1>1. ViewsInv /\ [SavedViewsNext]_viewVars => [Grow]_viewVars
  <2> SUFFICES ASSUME ViewsInv, SavedViewsNext, ~ adrift,
                      NEW o \in ViewOwners, NEW i \in DOMAIN viewStore[o]
               PROVE  \E j \in DOMAIN viewStore'[o] : viewStore'[o][j] = viewStore[o][i]
    OBVIOUS
  <2>1. viewStore[o] \in Seq(1..MaxViews) /\ views = viewStore[owner]
    BY DEF ViewsInv, SavedViewsTypeOK, ViewsAreStored
  <2>2. \/ viewStore'[o] = viewStore[o]
        \/ \E v \in Nat : viewStore'[o] = Append(viewStore[o], v)
    <3>1. viewsMade + 1 \in Nat
      BY DEF ViewsInv, SavedViewsTypeOK
    <3>2. CASE SaveView
      BY <2>1, <3>1, <3>2 DEF SaveView, ViewsInv, SavedViewsTypeOK
    <3>3. CASE SavedElsewhere
      BY <2>1, <3>1, <3>3 DEF SavedElsewhere, ViewsInv, SavedViewsTypeOK
    <3>4. CASE ReadViews
      BY <3>4 DEF ReadViews
    <3> QED
      BY <3>2, <3>3, <3>4 DEF SavedViewsNext
  <2>3. ASSUME NEW v \in Nat, viewStore'[o] = Append(viewStore[o], v)
        PROVE  i \in DOMAIN viewStore'[o] /\ viewStore'[o][i] = viewStore[o][i]
    BY <2>1, <2>3
  <2> QED
    BY <2>2, <2>3
<1>2. SavedViewsSpec => []ViewsInv
  BY ViewsStart, ViewsNext, PTL DEF SavedViewsSpec
<1> QED
  BY <1>1, <1>2, PTL DEF SavedViewsSpec, ViewsOnlyGrow

-----------------------------------------------------------------------------
(* The furniture together, beside the other parts                          *)

FurnitureInv ==
  ChromeInv /\ PicturesInv /\ FloatingInv /\ ThemeInv /\ ToolsInv /\ ViewsInv

\* A step of the pages is one of the part's, or leaves the part as it is.
LEMMA FurnitureSteps ==
  ASSUME [PagesNext]_pagesVars
  PROVE  /\ [ShellChromeNext]_chromeVars /\ [ChartsNext]_chartVars
         /\ [FloatingLayersNext]_layerVars /\ [ThemeNext]_themeVars
         /\ [TableToolsNext]_toolVars /\ [SavedViewsNext]_viewVars
<1>1. CASE UNCHANGED pagesVars
  BY <1>1 DEF pagesVars
<1>2. CASE PagesNext
  BY <1>2 DEF PagesNext, Rest
<1> QED
  BY <1>1, <1>2

LEMMA FurnitureStart == PagesInit => FurnitureInv
<1> SUFFICES ASSUME PagesInit PROVE FurnitureInv
  OBVIOUS
<1>1. /\ ShellChromeInit /\ ChartsInit /\ FloatingLayersInit /\ ThemeInit /\ TableToolsInit
      /\ SavedViewsInit
  BY DEF PagesInit
<1> QED
  BY <1>1, LayersStart, WaysStart, ChromeParts, PicturesStart, FloatingStart, ThemeStart,
     ToolsStart, ViewsStart DEF FurnitureInv

LEMMA FurnitureNext == FurnitureInv /\ [PagesNext]_pagesVars => FurnitureInv'
<1> SUFFICES ASSUME FurnitureInv, [PagesNext]_pagesVars PROVE FurnitureInv'
  OBVIOUS
<1>1. /\ ChromeInv /\ PicturesInv /\ FloatingInv /\ ThemeInv /\ ToolsInv /\ ViewsInv
  BY DEF FurnitureInv
<1>2. (LayersInv /\ WaysInv)'
  BY <1>1, FurnitureSteps, ChromeParts, LayersNext, WaysNext
<1>3. ChromeInv'
  BY <1>2, ChromeParts, PTL
<1> QED
  BY <1>1, <1>3, FurnitureSteps, PicturesNext, FloatingNext, ThemeStep, ToolsNext, ViewsNext
     DEF FurnitureInv

LEMMA FurnitureSays == FurnitureInv => FurnitureIsTrue
  BY PicturesSay, FloatingSays
     DEF FurnitureInv, FurnitureIsTrue, ChromeInv, PicturesAreTrue, ThemeInv, ToolsInv, ViewsInv

(* FurnitureIsTrue, for any paths, points, bands, options, geometries,     *)
(* transactions and views, and any faults: the drawer is a phone's, a      *)
(* closed palette forgets, nobody is left on the pages of another kind, a  *)
(* picture shows its figures, a layer is in the window beside its anchor,  *)
(* the page carries the theme that is shown, the tools are of what the     *)
(* table lists and the views offered are those that are kept.              *)
THEOREM FurnitureKeepsItsWord == PagesSpec => []FurnitureIsTrue
  BY FurnitureStart, FurnitureNext, FurnitureSays, PTL DEF PagesSpec

-----------------------------------------------------------------------------
(* Sign-in                                                                 *)

Codes == 0..MaxStarts
Pages == {"signin", "leaving", "google", "callback", "exchanging", "error", "dashboard"}
ChannelChoices == [channel : Channels, code : Codes, verifier : Codes] \cup {NoChannel}

TabStates ==
  [page : Pages, user : Accounts \cup {"none", "unread"},
   attempt : Codes, verifier : Codes, query : Codes,
   selected : ChannelChoices, tries : 0..Attempts, waiting : Nat, own : BOOLEAN]

TabsTyped == tab \in [Tabs -> TabStates]

Handoffs ==
  [status : {"none", "open", "redeemed", "expired"}, channel : Channels \cup {""},
   account : Accounts \cup {"none"}, minted : Nat]

ApiTyped ==
  /\ cookies \in [state : Codes, handoff : Codes, session : Codes]
  /\ login \in [Starts -> {"none", "pending", "gone"}]
  /\ reserved \subseteq Starts
  /\ handoff \in [Starts -> Handoffs]
  /\ requests \subseteq [id : Nat, channel : Channels, verifier : Codes, code : Codes]
  /\ answers \subseteq [id : Nat, status : {"ok", "unavailable", "invalid"}, token : Codes]
  /\ starts \in Codes /\ sends \in Nat

\* An attempt belongs to one tab, and the API hears of it once the tab left.
AttemptsApart ==
  /\ \A t \in Tabs : tab[t].attempt <= starts
  /\ \A t, u \in Tabs : tab[t].attempt = tab[u].attempt => t = u \/ tab[t].attempt = 0
  /\ \A n \in Starts : n > starts => login[n] = "none"
  /\ \A t \in Tabs : tab[t].page \in {"leaving", "google"} => tab[t].attempt # 0
  /\ \A t \in Tabs : tab[t].page = "leaving" => login[tab[t].attempt] = "none"

\* A handoff is written for a login that has ended, and counts its tokens.
HandoffsFollowLogins ==
  \A n \in Starts :
    /\ login[n] # "gone" => handoff[n].status = "none"
    /\ handoff[n].status \in {"none", "open"} => handoff[n].minted = 0
    /\ handoff[n].minted <= 1

\* What a tab holds is of its own attempt, and a tab that is bound to it asks
\* with the code of that attempt.
TabsHoldTheirOwn ==
  \A t \in Tabs :
    /\ tab[t].verifier \in {0, tab[t].attempt}
    /\ tab[t].page = "callback" => tab[t].query \in {0, tab[t].attempt}
    /\ tab[t].own = TRUE /\ tab[t].page \in {"exchanging", "error"} /\ tab[t].selected # NoChannel
         => tab[t].selected.channel = "body" /\ tab[t].selected.code = tab[t].attempt
    /\ tab[t].page = "exchanging" => tab[t].selected # NoChannel

\* A request, and the answer to it, are for the code their tab asked with.
ExchangesMatch ==
  /\ \A t \in Tabs : tab[t].waiting <= sends
  /\ \A t \in Tabs : tab[t].waiting # 0 => tab[t].page = "exchanging"
  /\ \A r \in requests : r.id # 0 /\ r.id <= sends
  /\ \A a \in answers : a.id # 0 /\ a.id <= sends
  /\ \A r \in requests, t \in Tabs :
       tab[t].waiting = r.id /\ tab[t].selected.channel = "body" => r.code = tab[t].selected.code
  /\ \A a \in answers, t \in Tabs :
       tab[t].waiting = a.id /\ tab[t].selected.channel = "body" /\ a.status = "ok"
         => a.token = tab[t].selected.code

SignInInv ==
  /\ TabsTyped /\ ApiTyped
  /\ AttemptsApart /\ HandoffsFollowLogins /\ NoStrandedReservation
  /\ TabsHoldTheirOwn /\ ExchangesMatch

LEMMA Bounds ==
  /\ MaxStarts \in Nat /\ MaxStarts # 0 /\ Attempts \in Nat
  /\ 0 \in Codes /\ 0 \notin Starts
  /\ \A n : n \in Starts <=> n \in Codes /\ n # 0
BY SignInAssumption DEF Codes, Starts

LEMMA SignInStart == SignInInit => SignInInv
<1> SUFFICES ASSUME SignInInit PROVE SignInInv
  OBVIOUS
<1>1. FreshTab \in TabStates
  BY Bounds DEF FreshTab, NoChannel, ChannelChoices, Pages, TabStates
<1>2. TabsTyped
  BY <1>1 DEF SignInInit, TabsTyped
<1>3. ApiTyped
  <2>1. NoHandoff \in Handoffs
    BY DEF NoHandoff, Handoffs
  <2>2. login \in [Starts -> {"none", "pending", "gone"}]
    BY DEF SignInInit
  <2>3. cookies \in [state : Codes, handoff : Codes, session : Codes]
    BY Bounds DEF SignInInit
  <2> QED
    BY Bounds, <2>1, <2>2, <2>3 DEF SignInInit, ApiTyped
<1>4. AttemptsApart
  BY DEF SignInInit, FreshTab, AttemptsApart
<1>5. HandoffsFollowLogins /\ NoStrandedReservation
  <2>1. \A n \in Starts : handoff[n].status = "none" /\ handoff[n].minted = 0
    BY DEF SignInInit, NoHandoff
  <2> QED
    BY <2>1 DEF SignInInit, HandoffsFollowLogins, NoStrandedReservation
<1>6. TabsHoldTheirOwn /\ ExchangesMatch
  BY DEF SignInInit, FreshTab, TabsHoldTheirOwn, ExchangesMatch
<1> QED
  BY <1>2, <1>3, <1>4, <1>5, <1>6 DEF SignInInv

\* The tab leaves for the API: a new attempt.
LEMMA StartKeeps ==
  ASSUME SignInInv, NEW t \in Tabs, StartGoogleSso(t)
  PROVE  SignInInv'
<1>0. /\ TabsTyped /\ ApiTyped /\ AttemptsApart /\ HandoffsFollowLogins /\ NoStrandedReservation
      /\ TabsHoldTheirOwn /\ ExchangesMatch
  BY DEF SignInInv
<1>1. starts \in Nat /\ starts + 1 \in Codes /\ starts + 1 \in Starts
  <2>1. starts \in 0..MaxStarts /\ starts < MaxStarts
    BY <1>0 DEF StartGoogleSso, ApiTyped, Codes
  <2> QED
    BY <2>1, Bounds DEF Codes, Starts
<1>2. tab' = [tab EXCEPT ![t] = [tab[t] EXCEPT !.page = "leaving",
                !.attempt = starts + 1, !.verifier = starts + 1]]
  BY DEF StartGoogleSso
<1>3. TabsTyped'
  <2>1. tab[t] \in TabStates /\ tab \in [Tabs -> TabStates]
    BY <1>0 DEF TabsTyped
  <2>2. "leaving" \in Pages /\ starts + 1 \in Codes
    BY <1>1 DEF Pages
  <2>3. [tab[t] EXCEPT !.page = "leaving", !.attempt = starts + 1, !.verifier = starts + 1]
          \in TabStates
    BY <2>1, <2>2 DEF TabStates
  <2> QED
    BY <1>2, <2>1, <2>3 DEF TabsTyped
<1>4. ApiTyped'
  BY <1>0, <1>1 DEF StartGoogleSso, ApiTyped
<1>5. /\ tab[t].waiting = 0 /\ tab'[t].waiting = 0 /\ tab'[t].page = "leaving"
      /\ tab'[t].attempt = starts + 1 /\ tab'[t].verifier = starts + 1
      /\ \A u \in Tabs : u # t => tab'[u] = tab[u]
  BY <1>0, <1>1, <1>2 DEF StartGoogleSso, CanStart, TabsTyped, TabStates, ExchangesMatch
<1>6. \A u \in Tabs : tab[u].attempt \in Nat
  BY <1>0 DEF TabsTyped, TabStates, Codes
<1>7. AttemptsApart'
  BY <1>0, <1>1, <1>5, <1>6 DEF StartGoogleSso, AttemptsApart, Starts
<1>8. HandoffsFollowLogins' /\ NoStrandedReservation'
  BY <1>0 DEF StartGoogleSso, HandoffsFollowLogins, NoStrandedReservation
<1>9. TabsHoldTheirOwn'
  BY <1>0, <1>5 DEF TabsHoldTheirOwn
<1>10. ExchangesMatch'
  <2>1. sends \in Nat
    BY <1>0 DEF ApiTyped
  <2> QED
    BY <1>0, <1>5, <2>1 DEF StartGoogleSso, ExchangesMatch
<1> QED
  BY <1>3, <1>4, <1>7, <1>8, <1>9, <1>10 DEF SignInInv

\* What any other step may make of the tab it moves ...
MayBecome(t, r) ==
  /\ r \in TabStates
  /\ r.attempt = tab[t].attempt \/ (r.attempt = 0 /\ r.page = "signin")
  /\ r.page = "leaving" => tab[t].page = "leaving" /\ r.attempt = tab[t].attempt
  /\ r.page = "google" => tab[t].page \in {"leaving", "google"}
  /\ r.verifier \in {0, r.attempt}
  /\ r.page = "callback" => r.query \in {0, r.attempt}
  /\ r.own = TRUE /\ r.page \in {"exchanging", "error"} /\ r.selected # NoChannel
       => r.selected.channel = "body" /\ r.selected.code = r.attempt
  /\ r.page = "exchanging" => r.selected # NoChannel
  /\ \/ r.waiting = 0
     \/ r.waiting = tab[t].waiting /\ r.page = "exchanging" /\ r.selected = tab[t].selected

\* ... and of the login of that tab's attempt.
LEMMA TabMoves ==
  ASSUME SignInInv, NEW t \in Tabs, NEW r, MayBecome(t, r),
         tab' = [tab EXCEPT ![t] = r],
         UNCHANGED <<requests, starts, sends>>, answers' \subseteq answers,
         \A n \in Starts : login'[n] = login[n] \/ (n = tab[t].attempt /\ r.page # "leaving")
  PROVE  TabsTyped' /\ AttemptsApart' /\ TabsHoldTheirOwn' /\ ExchangesMatch'
<1>0. TabsTyped /\ ApiTyped /\ AttemptsApart /\ TabsHoldTheirOwn /\ ExchangesMatch
  BY DEF SignInInv
<1> USE DEF MayBecome
<1>1. tab'[t] = r /\ \A u \in Tabs : u # t => tab'[u] = tab[u]
  BY <1>0 DEF TabsTyped
<1>2. TabsTyped'
  BY <1>0 DEF TabsTyped
<1>3. starts \in Nat /\ sends \in Nat
  <2>1. starts \in Codes /\ sends \in Nat
    BY <1>0 DEF ApiTyped
  <2> QED
    BY <2>1, Bounds DEF Codes
<1>4. AttemptsApart'
  <2>1. \A u \in Tabs : tab'[u].attempt = tab[u].attempt \/ tab'[u].attempt = 0
    BY <1>1
  <2>2. \A u \in Tabs : tab'[u].attempt <= starts'
    BY <1>0, <1>3, <2>1 DEF AttemptsApart
  <2>3. \A x, u \in Tabs : tab'[x].attempt = tab'[u].attempt => x = u \/ tab'[x].attempt = 0
    BY <1>0, <2>1 DEF AttemptsApart
  <2>4. \A n \in Starts : n > starts' => login'[n] = "none"
    <3>1. \A n \in Starts : n > starts => n # tab[t].attempt
      BY <1>0, <1>3 DEF AttemptsApart, Starts
    <3> QED
      BY <1>0, <3>1 DEF AttemptsApart
  <2>5. \A u \in Tabs : tab'[u].page \in {"leaving", "google"} => tab'[u].attempt # 0
    BY <1>0, <1>1 DEF AttemptsApart
  <2>6. \A u \in Tabs : tab'[u].page = "leaving" => login'[tab'[u].attempt] = "none"
    <3> SUFFICES ASSUME NEW u \in Tabs, tab'[u].page = "leaving"
                 PROVE  login'[tab'[u].attempt] = "none"
      OBVIOUS
    <3>1. tab[u].page = "leaving" /\ tab'[u].attempt = tab[u].attempt
      BY <1>1
    <3>2. tab[u].attempt # 0 /\ tab[u].attempt \in Starts /\ login[tab[u].attempt] = "none"
      BY <1>0, <3>1, Bounds DEF AttemptsApart, TabsTyped, TabStates
    <3>3. tab[u].attempt # tab[t].attempt \/ u = t
      BY <1>0, <3>2 DEF AttemptsApart
    <3> QED
      BY <1>1, <3>1, <3>2, <3>3
  <2> QED
    BY <2>2, <2>3, <2>4, <2>5, <2>6 DEF AttemptsApart
<1>5. TabsHoldTheirOwn'
  BY <1>0, <1>1 DEF TabsHoldTheirOwn
<1>6. ExchangesMatch'
  BY <1>0, <1>1, <1>3 DEF ExchangesMatch
<1> QED
  BY <1>2, <1>4, <1>5, <1>6

\* A step that leaves the API alone but for answers that were received.
LEMMA ApiFramed ==
  ASSUME SignInInv, UNCHANGED <<login, reserved, handoff, requests, starts, sends>>,
         answers' \subseteq answers,
         cookies' \in [state : Codes, handoff : Codes, session : Codes]
  PROVE  ApiTyped' /\ HandoffsFollowLogins' /\ NoStrandedReservation'
BY DEF SignInInv, ApiTyped, HandoffsFollowLogins, NoStrandedReservation

\* Steps of one tab and the browser's cookies.
LEMMA TabStepKeeps ==
  ASSUME SignInInv, NEW t \in Tabs,
         \/ StartThrows(t) \/ BackFromGoogle(t) \/ GoogleLoginFails(t) \/ WrongState(t)
         \/ VerifierExpires(t) \/ LoadCallback(t) \/ CallbackInvalid(t) \/ Timeout(t)
         \/ RetrySignIn(t) \/ BackToLogin(t)
         \/ \E a \in answers : ReceiveAnswer(t, a)
         \/ \E failed \in BOOLEAN : ReadSession(t, failed)
         \/ \E reached \in BOOLEAN : SignOut(t, reached)
  PROVE  SignInInv'
<1>0. TabsTyped /\ ApiTyped /\ AttemptsApart /\ TabsHoldTheirOwn /\ ExchangesMatch
  BY DEF SignInInv
<1>1. tab[t] \in TabStates /\ cookies \in [state : Codes, handoff : Codes, session : Codes]
  BY <1>0 DEF TabsTyped, ApiTyped
<1>20. 0 \in Codes /\ Attempts \in 0..Attempts
  BY Bounds
<1> USE <1>20 DEF TabStates, Pages
<1>2. ASSUME TabsTyped' /\ AttemptsApart' /\ TabsHoldTheirOwn' /\ ExchangesMatch',
             UNCHANGED <<login, reserved, handoff, requests, starts, sends>>,
             answers' \subseteq answers,
             cookies' \in [state : Codes, handoff : Codes, session : Codes]
      PROVE  SignInInv'
  BY <1>2, ApiFramed DEF SignInInv
<1>3. ASSUME NEW r, MayBecome(t, r), tab' = [tab EXCEPT ![t] = r],
             UNCHANGED <<login, reserved, handoff, requests, starts, sends>>,
             answers' \subseteq answers,
             cookies' \in [state : Codes, handoff : Codes, session : Codes]
      PROVE  SignInInv'
  BY <1>2, <1>3, TabMoves
<1>4. /\ tab[t].verifier \in {0, tab[t].attempt}
      /\ tab[t].page = "callback" => tab[t].query \in {0, tab[t].attempt}
      /\ tab[t].own = TRUE /\ tab[t].page \in {"exchanging", "error"} /\ tab[t].selected # NoChannel
           => tab[t].selected.channel = "body" /\ tab[t].selected.code = tab[t].attempt
      /\ tab[t].page = "exchanging" => tab[t].selected # NoChannel
      /\ tab[t].waiting # 0 => tab[t].page = "exchanging"
  BY <1>0 DEF TabsHoldTheirOwn, ExchangesMatch
<1>5. CASE StartThrows(t)
  <2>1. MayBecome(t, Cleared(tab[t]))
    BY <1>1, <1>4, <1>5 DEF StartThrows, CanStart, Cleared, MayBecome
  <2> QED
    BY <1>1, <1>3, <1>5, <2>1 DEF StartThrows
<1>6. CASE BackFromGoogle(t)
  <2>1. MayBecome(t, [tab[t] EXCEPT !.page = "signin", !.user = "none"])
    BY <1>1, <1>4, <1>6 DEF BackFromGoogle, MayBecome
  <2> QED
    BY <1>1, <1>3, <1>6, <2>1 DEF BackFromGoogle, TabsTyped
<1>7. CASE GoogleLoginFails(t) \/ WrongState(t)
  <2>1. MayBecome(t, [tab[t] EXCEPT !.page = "callback", !.query = 0])
    BY <1>1, <1>4, <1>7 DEF GoogleLoginFails, WrongState, MayBecome
  <2> QED
    BY ZenonT(30), <1>1, <1>3, <1>7, <2>1 DEF GoogleLoginFails, WrongState, Redirected
<1>8. CASE VerifierExpires(t)
  <2>1. MayBecome(t, Cleared(tab[t]))
    BY <1>1, <1>4, <1>8 DEF VerifierExpires, Cleared, MayBecome
  <2> QED
    BY <1>1, <1>3, <1>8, <2>1 DEF VerifierExpires
<1>9. CASE LoadCallback(t)
  <2>1. Selected(tab[t]) \in ChannelChoices /\ Selected(tab[t]) # NoChannel
    BY <1>1 DEF Selected, ChannelChoices, Channels, NoChannel
  <2>2. MayBecome(t, [Cleared(tab[t]) EXCEPT !.page = "exchanging",
                !.selected = Selected(tab[t]), !.tries = Attempts, !.query = 0,
                !.own = tab[t].verifier # 0])
    BY <1>1, <1>4, <1>9, <2>1 DEF LoadCallback, Cleared, Selected, MayBecome
  <2> QED
    BY <1>1, <1>3, <1>9, <2>2 DEF LoadCallback
<1>10. NoChannel \in ChannelChoices
  BY DEF NoChannel, ChannelChoices
<1>11. CASE CallbackInvalid(t)
  <2>1. MayBecome(t, [Interrupted(tab[t], FALSE) EXCEPT !.query = 0])
    BY <1>1, <1>4, <1>10, <1>11 DEF CallbackInvalid, Interrupted, Cleared, MayBecome
  <2> QED
    BY <1>1, <1>3, <1>11, <2>1 DEF CallbackInvalid
<1>12. tab[t].page = "exchanging" => MayBecome(t, RetryOrShow(tab[t]))
  BY <1>1, <1>4 DEF RetryOrShow, Interrupted, MayBecome
<1>13. CASE Timeout(t)
  BY <1>1, <1>3, <1>12, <1>13 DEF Timeout
<1>14. CASE RetrySignIn(t)
  <2>1. MayBecome(t, [tab[t] EXCEPT !.page = "exchanging", !.tries = Attempts])
    BY <1>1, <1>4, <1>14 DEF RetrySignIn, MayBecome
  <2> QED
    BY <1>1, <1>3, <1>14, <2>1 DEF RetrySignIn
<1>15. CASE BackToLogin(t)
  <2>1. MayBecome(t, FreshTab)
    BY <1>1, <1>4, <1>10, <1>15 DEF BackToLogin, FreshTab, MayBecome
  <2> QED
    BY <1>1, <1>3, <1>15, <2>1 DEF BackToLogin
<1>16. ASSUME NEW a \in answers, ReceiveAnswer(t, a) PROVE SignInInv'
  <2>1. /\ tab[t].page = "exchanging"
        /\ answers' \subseteq answers
        /\ UNCHANGED <<login, reserved, handoff, requests, starts, sends>>
    BY <1>16 DEF ReceiveAnswer
  <2>2. cookies' \in [state : Codes, handoff : Codes, session : Codes]
    <3>1. a.token \in Codes
      BY <1>0 DEF ApiTyped
    <3> QED
      BY <1>1, <1>16, <3>1 DEF ReceiveAnswer
  <2>3. CASE a.status = "ok"
    <3>1. MayBecome(t, [tab[t] EXCEPT !.page = "dashboard", !.user = "unread",
                                      !.waiting = 0, !.selected = NoChannel])
      BY <1>1, <1>4, <1>10 DEF MayBecome
    <3> QED
      BY <1>3, <1>16, <2>1, <2>2, <2>3, <3>1 DEF ReceiveAnswer
  <2>4. CASE a.status = "invalid"
    <3>1. MayBecome(t, Interrupted(tab[t], FALSE))
      BY <1>1, <1>4, <1>10 DEF Interrupted, Cleared, MayBecome
    <3>2. tab' = [tab EXCEPT ![t] = Interrupted(tab[t], FALSE)]
      BY <1>16, <2>4 DEF ReceiveAnswer
    <3> QED
      BY <1>3, <2>1, <2>2, <3>1, <3>2
  <2>5. CASE a.status = "unavailable"
    <3>1. tab' = [tab EXCEPT ![t] = RetryOrShow(tab[t])]
      BY <1>16, <2>5 DEF ReceiveAnswer
    <3> QED
      BY <1>3, <1>12, <2>1, <2>2, <3>1
  <2>6. a.status \in {"ok", "unavailable", "invalid"}
    BY <1>0 DEF ApiTyped
  <2> QED
    BY <2>3, <2>4, <2>5, <2>6
<1>17. ASSUME NEW failed \in BOOLEAN, ReadSession(t, failed) PROVE SignInInv'
  <2> DEFINE u == IF cookies.session = 0 \/ failed THEN "none"
                  ELSE handoff[cookies.session].account
  <2>1. u \in Accounts \cup {"none"}
    <3>1. cookies.session = 0 \/ cookies.session \in Starts
      BY <1>1, Bounds
    <3>2. handoff \in [Starts -> Handoffs]
      BY <1>0 DEF ApiTyped
    <3> QED
      BY <3>1, <3>2 DEF Handoffs
  <2>2. MayBecome(t, [tab[t] EXCEPT !.user = u, !.page = SurfaceFor(u)])
    BY <1>1, <1>4, <1>17, <2>1 DEF ReadSession, SurfaceFor, MayBecome
  <2> QED
    BY <1>1, <1>3, <1>17, <2>2 DEF ReadSession
<1>18. ASSUME NEW reached \in BOOLEAN, SignOut(t, reached) PROVE SignInInv'
  <2>1. MayBecome(t, [tab[t] EXCEPT !.user = "none",
                             !.page = IF reached THEN "signin" ELSE tab[t].page])
    BY <1>1, <1>4, <1>18 DEF SignOut, MayBecome
  <2>2. cookies' \in [state : Codes, handoff : Codes, session : Codes]
    BY <1>1, <1>18 DEF SignOut
  <2>3. tab' = [tab EXCEPT ![t] = [tab[t] EXCEPT !.user = "none",
                             !.page = IF reached THEN "signin" ELSE tab[t].page]]
    BY <1>18 DEF SignOut
  <2>4. UNCHANGED <<login, reserved, handoff, requests, answers, starts, sends>>
    BY <1>18 DEF SignOut
  <2> QED
    BY <1>3, <2>1, <2>2, <2>3, <2>4
<1> QED
  BY <1>5, <1>6, <1>7, <1>8, <1>9, <1>11, <1>13, <1>14, <1>15, <1>16, <1>17, <1>18

\* Steps of a tab at the API: start and callback.
LEMMA LoginStepKeeps ==
  ASSUME SignInInv, NEW t \in Tabs,
         GoogleLogin(t) \/ CallbackFails(t) \/ \E a \in Accounts : GoogleCallback(t, a)
  PROVE  SignInInv'
<1> DEFINE n == tab[t].attempt
<1>0. /\ TabsTyped /\ ApiTyped /\ AttemptsApart /\ HandoffsFollowLogins /\ NoStrandedReservation
      /\ TabsHoldTheirOwn /\ ExchangesMatch
  BY DEF SignInInv
<1>1. /\ tab[t] \in TabStates /\ cookies \in [state : Codes, handoff : Codes, session : Codes]
      /\ 0 \in Codes
  BY <1>0, Bounds DEF TabsTyped, ApiTyped
<1>2. tab[t].page \in {"leaving", "google"} /\ n \in Starts
  BY <1>0, <1>1, Bounds
     DEF GoogleLogin, CallbackFails, GoogleCallback, AttemptsApart, TabStates
<1>3. /\ tab[t].verifier \in {0, tab[t].attempt}
      /\ tab[t].waiting = 0
  BY <1>0, <1>2 DEF TabsHoldTheirOwn, ExchangesMatch
<1>4. ASSUME NEW code \in {0, n}
      PROVE  MayBecome(t, [tab[t] EXCEPT !.page = "callback", !.query = code])
  BY <1>1, <1>2, <1>3, <1>4 DEF MayBecome, TabStates, Pages
<1>5. ASSUME TabsTyped' /\ AttemptsApart' /\ TabsHoldTheirOwn' /\ ExchangesMatch',
             ApiTyped', HandoffsFollowLogins', NoStrandedReservation'
      PROVE  SignInInv'
  BY <1>5 DEF SignInInv
<1>6. CASE GoogleLogin(t)
  <2>1. MayBecome(t, [tab[t] EXCEPT !.page = "google"])
    BY <1>1, <1>2, <1>3 DEF MayBecome, TabStates, Pages
  <2>3. /\ login[n] = "none" /\ login' = [login EXCEPT ![n] = "pending"]
        /\ reserved' = reserved \cup {n} /\ cookies' = [cookies EXCEPT !.state = n]
        /\ tab' = [tab EXCEPT ![t] = [tab[t] EXCEPT !.page = "google"]]
        /\ UNCHANGED <<handoff, requests, answers, starts, sends>>
    BY <1>0, <1>6 DEF GoogleLogin, AttemptsApart
  <2>6. \A m \in Starts : login'[m] = login[m] \/ m = n
    BY <1>0, <2>3 DEF ApiTyped
  <2>2. TabsTyped' /\ AttemptsApart' /\ TabsHoldTheirOwn' /\ ExchangesMatch'
    <3>1. [tab[t] EXCEPT !.page = "google"].page # "leaving"
      BY <1>1 DEF TabStates
    <3> QED
      BY <2>1, <2>3, <2>6, <3>1, TabMoves
  <2>4. ApiTyped'
    <3>1. cookies' \in [state : Codes, handoff : Codes, session : Codes]
      BY <1>1, <1>2, <2>3, Bounds
    <3>2. login' \in [Starts -> {"none", "pending", "gone"}]
      BY <1>0, <2>3 DEF ApiTyped
    <3> QED
      BY <1>0, <1>2, <2>3, <3>1, <3>2 DEF ApiTyped
  <2>5. HandoffsFollowLogins' /\ NoStrandedReservation'
    <3>1. login'[n] = "pending"
      BY <1>0, <1>2, <2>3 DEF ApiTyped
    <3>2. \A m \in Starts : login'[m] # "gone" => login[m] # "gone"
      BY <2>3, <2>6
    <3> QED
      BY <1>0, <1>2, <2>3, <2>6, <3>1, <3>2
         DEF HandoffsFollowLogins, NoStrandedReservation, ApiTyped
  <2> QED
    BY <1>5, <2>2, <2>4, <2>5
<1>7. ASSUME TakeState(n)
      PROVE  /\ login' \in [Starts -> {"none", "pending", "gone"}]
             /\ reserved' \subseteq Starts /\ NoStrandedReservation'
             /\ login' = [login EXCEPT ![n] = "gone"]
             /\ \A m \in Starts : login'[m] = login[m] \/ m = n
  BY <1>0, <1>2, <1>7 DEF TakeState, ApiTyped, NoStrandedReservation
<1>10. \A code : [tab[t] EXCEPT !.page = "callback", !.query = code].page = "callback"
  BY <1>1 DEF TabStates
<1>8. CASE CallbackFails(t)
  <2>1. TakeState(n)
    BY <1>8 DEF CallbackFails
  <2>2. TabsTyped' /\ AttemptsApart' /\ TabsHoldTheirOwn' /\ ExchangesMatch'
    <3>1. MayBecome(t, [tab[t] EXCEPT !.page = "callback", !.query = 0])
      BY <1>4
    <3>2. tab' = [tab EXCEPT ![t] = [tab[t] EXCEPT !.page = "callback", !.query = 0]]
          /\ UNCHANGED <<handoff, requests, answers, starts, sends>>
      BY <1>8, <1>0 DEF CallbackFails, Redirected, TabsTyped
    <3> QED
      BY <1>7, <1>10, <2>1, <3>1, <3>2, TabMoves
  <2>3. ApiTyped'
    BY <1>0, <1>1, <1>7, <1>8, <2>1 DEF CallbackFails, ApiTyped
  <2>4. HandoffsFollowLogins'
    BY <1>0, <1>2, <1>7, <1>8, <2>1 DEF CallbackFails, HandoffsFollowLogins, ApiTyped
  <2> QED
    BY <1>5, <1>7, <2>1, <2>2, <2>3, <2>4
<1>9. ASSUME NEW a \in Accounts, GoogleCallback(t, a) PROVE SignInInv'
  <2>1. TakeState(n) /\ login[n] = "pending"
    BY <1>9 DEF GoogleCallback
  <2>2. TabsTyped' /\ AttemptsApart' /\ TabsHoldTheirOwn' /\ ExchangesMatch'
    <3>1. MayBecome(t, [tab[t] EXCEPT !.page = "callback", !.query = n])
      BY <1>4
    <3>2. tab' = [tab EXCEPT ![t] = [tab[t] EXCEPT !.page = "callback", !.query = n]]
          /\ UNCHANGED <<requests, answers, starts, sends>>
      BY <1>9, <1>0 DEF GoogleCallback, Redirected, TabsTyped
    <3> QED
      BY <1>7, <1>10, <2>1, <3>1, <3>2, TabMoves
  <2>3. /\ handoff' = [handoff EXCEPT ![n] = [handoff[n] EXCEPT !.status = "open", !.account = a]]
        /\ handoff \in [Starts -> Handoffs]
    BY <1>0, <1>9 DEF GoogleCallback, ApiTyped
  <2>4. cookies' \in [state : Codes, handoff : Codes, session : Codes]
    BY <1>1, <1>2, <1>9, Bounds DEF GoogleCallback
  <2>5. ApiTyped'
    <3>0. [handoff[n] EXCEPT !.status = "open", !.account = a] \in Handoffs
      <4>1. handoff[n] \in Handoffs
        BY <1>2, <2>3
      <4> QED
        BY <1>9, <4>1 DEF Handoffs
    <3>1. handoff' \in [Starts -> Handoffs]
      BY <2>3, <3>0
    <3> QED
      BY ZenonT(30), <1>0, <1>7, <1>9, <2>1, <2>4, <3>1 DEF GoogleCallback, ApiTyped
  <2>6. HandoffsFollowLogins'
    <3>1. handoff[n].minted = 0
      BY <1>0, <1>2, <2>1 DEF HandoffsFollowLogins
    <3>2. handoff'[n].minted = 0 /\ handoff'[n].status = "open"
      BY ZenonT(30), <1>2, <2>3, <3>1 DEF Handoffs
    <3>3. \A m \in Starts : m # n => handoff'[m] = handoff[m] /\ login'[m] = login[m]
      BY <1>0, <1>7, <2>1, <2>3 DEF ApiTyped
    <3>4. login'[n] = "gone"
      BY <1>0, <1>2, <1>7, <2>1 DEF ApiTyped
    <3> QED
      BY <1>0, <3>2, <3>3, <3>4 DEF HandoffsFollowLogins
  <2> QED
    BY <1>5, <1>7, <2>1, <2>2, <2>5, <2>6
<1> QED
  BY <1>6, <1>8, <1>9

\* The exchange of the handoff, and the clocks.
LEMMA ExchangeStepKeeps ==
  ASSUME SignInInv,
         \/ \E t \in Tabs : RequestExchange(t)
         \/ \E r \in requests : Exchange(r) \/ ExchangeUnavailable(r)
         \/ \E n \in Starts : ReservationExpires(n) \/ StateExpires(n) \/ HandoffExpires(n)
  PROVE  SignInInv'
<1>0. /\ TabsTyped /\ ApiTyped /\ AttemptsApart /\ HandoffsFollowLogins /\ NoStrandedReservation
      /\ TabsHoldTheirOwn /\ ExchangesMatch
  BY DEF SignInInv
<1>1. ASSUME NEW t \in Tabs, RequestExchange(t) PROVE SignInInv'
  <2> DEFINE s == tab[t].selected
             sent == [id |-> sends + 1, channel |-> s.channel, verifier |-> s.verifier,
                      code |-> IF s.channel = "body" THEN s.code ELSE cookies.handoff]
  <2>1. /\ sends \in Nat /\ tab[t] \in TabStates /\ tab[t].page = "exchanging" /\ tab[t].waiting = 0
        /\ cookies.handoff \in Codes /\ s \in [channel : Channels, code : Codes, verifier : Codes]
    BY <1>0, <1>1
       DEF RequestExchange, ApiTyped, TabsTyped, TabStates, ChannelChoices, TabsHoldTheirOwn
  <2>2. tab' = [tab EXCEPT ![t] = [tab[t] EXCEPT !.waiting = sends + 1, !.tries = tab[t].tries - 1]]
        /\ requests' = requests \cup {sent} /\ sends' = sends + 1
        /\ UNCHANGED <<cookies, login, reserved, handoff, answers, starts>>
    BY <1>1 DEF RequestExchange
  <2>3. tab[t].tries - 1 \in 0..Attempts
    <3>1. tab[t].tries > 0 /\ tab[t].tries \in 0..Attempts /\ Attempts \in Nat
      BY <1>1, <2>1, Bounds DEF RequestExchange, TabStates
    <3> QED
      BY <3>1
  <2>4. TabsTyped'
    <3>1. ASSUME NEW w \in Nat, NEW k \in 0..Attempts
          PROVE  [tab[t] EXCEPT !.waiting = w, !.tries = k] \in TabStates
      BY <2>1 DEF TabStates
    <3> DEFINE w == sends + 1
               k == tab[t].tries - 1
    <3>3. w \in Nat /\ k \in 0..Attempts
      BY <2>1, <2>3
    <3> HIDE DEF w, k
    <3>4. [tab[t] EXCEPT !.waiting = w, !.tries = k] \in TabStates
      BY <3>1, <3>3
    <3>2. [tab[t] EXCEPT !.waiting = sends + 1, !.tries = tab[t].tries - 1] \in TabStates
      BY <3>4 DEF w, k
    <3> QED
      BY <1>0, <2>2, <3>2 DEF TabsTyped
  <2>5. sent \in [id : Nat, channel : Channels, verifier : Codes, code : Codes]
    BY <2>1 DEF TabStates, ChannelChoices
  <2>6. ApiTyped'
    BY <1>0, <2>1, <2>2, <2>5 DEF ApiTyped
  <2>7. /\ \A u \in Tabs : u # t => tab'[u] = tab[u]
        /\ tab'[t].waiting = sends + 1 /\ tab'[t].selected = s /\ tab'[t].page = "exchanging"
        /\ tab'[t].attempt = tab[t].attempt /\ tab'[t].verifier = tab[t].verifier
        /\ tab'[t].own = tab[t].own
    BY <1>0, <2>1, <2>2 DEF TabsTyped, TabStates
  <2>8. AttemptsApart' /\ HandoffsFollowLogins' /\ NoStrandedReservation'
    <3>1. \A u \in Tabs : tab'[u].attempt = tab[u].attempt /\ tab'[u].page = tab[u].page
      BY <2>1, <2>7
    <3> QED
      BY <1>0, <2>2, <3>1 DEF AttemptsApart, HandoffsFollowLogins, NoStrandedReservation
  <2>9. TabsHoldTheirOwn'
    BY <1>0, <2>1, <2>7 DEF TabsHoldTheirOwn
  <2>10. ExchangesMatch'
    <3>1. sent.id = sends + 1 /\ (s.channel = "body" => sent.code = s.code)
      OBVIOUS
    <3> HIDE DEF sent
    <3>2. \A u \in Tabs : tab'[u].waiting <= sends' /\ (tab'[u].waiting # 0 => tab'[u].page = "exchanging")
      BY <1>0, <2>1, <2>2, <2>7 DEF ExchangesMatch, TabsTyped, TabStates
    <3>3. \A r \in requests' : r.id # 0 /\ r.id <= sends'
      BY <1>0, <2>1, <2>2, <3>1 DEF ExchangesMatch, ApiTyped
    <3>4. \A a \in answers' : a.id # 0 /\ a.id <= sends'
      BY <1>0, <2>1, <2>2 DEF ExchangesMatch, ApiTyped
    <3>5. ASSUME NEW r \in requests', NEW u \in Tabs,
                 tab'[u].waiting = r.id, tab'[u].selected.channel = "body"
          PROVE  r.code = tab'[u].selected.code
      <4>1. CASE u = t
        <5>1. r = sent
          BY <1>0, <2>1, <2>2, <2>7, <3>5, <4>1 DEF ExchangesMatch, ApiTyped
        <5> QED
          BY <2>7, <3>1, <3>5, <4>1, <5>1
      <4>2. CASE u # t
        <5>1. tab'[u] = tab[u] /\ tab[u].waiting <= sends /\ tab[u].waiting \in Nat
          BY <1>0, <2>7, <4>2 DEF ExchangesMatch, TabsTyped, TabStates
        <5>3. tab[u].waiting # sends + 1
          BY <2>1, <5>1
        <5>2. r \in requests
          BY <2>2, <3>1, <3>5, <5>1, <5>3
        <5> QED
          BY <1>0, <3>5, <5>1, <5>2 DEF ExchangesMatch
      <4> QED
        BY <4>1, <4>2
    <3>6. ASSUME NEW a \in answers', NEW u \in Tabs,
                 tab'[u].waiting = a.id, tab'[u].selected.channel = "body", a.status = "ok"
          PROVE  a.token = tab'[u].selected.code
      <4>1. a \in answers /\ a.id <= sends
        BY <1>0, <2>2 DEF ExchangesMatch
      <4>2. u # t
        BY <2>1, <2>7, <3>6, <4>1
      <4> QED
        BY <1>0, <2>7, <3>6, <4>1, <4>2 DEF ExchangesMatch
    <3> QED
      BY <3>2, <3>3, <3>4, <3>5, <3>6 DEF ExchangesMatch
  <2> QED
    BY <2>4, <2>6, <2>8, <2>9, <2>10 DEF SignInInv
<1>2. ASSUME NEW r \in requests, UNCHANGED <<tab, cookies, login, reserved, starts, sends>>,
             requests' = requests \ {r},
             \/ Answered(r, "unavailable", 0) \/ Answered(r, "invalid", 0)
             \/ Answered(r, "ok", r.code),
             handoff' \in [Starts -> Handoffs],
             HandoffsFollowLogins'
      PROVE  SignInInv'
  <2>1. r.id \in Nat /\ r.code \in Codes /\ 0 \in Codes
    BY <1>0, Bounds DEF ApiTyped
  <2>2. \A a \in answers' :
          \/ a \in answers
          \/ /\ a.id = r.id
             /\ a \in [id : Nat, status : {"ok", "unavailable", "invalid"}, token : Codes]
             /\ a.status = "ok" => a.token = r.code
    BY <1>2, <2>1 DEF Answered
  <2>3. ApiTyped'
    BY <1>0, <1>2, <2>2 DEF ApiTyped
  <2>4. ExchangesMatch'
    BY <1>0, <1>2, <2>2 DEF ExchangesMatch
  <2>5. TabsTyped' /\ AttemptsApart' /\ NoStrandedReservation' /\ TabsHoldTheirOwn'
    BY <1>0, <1>2 DEF TabsTyped, AttemptsApart, NoStrandedReservation, TabsHoldTheirOwn
  <2> QED
    BY <1>2, <2>3, <2>4, <2>5 DEF SignInInv
<1>3. handoff \in [Starts -> Handoffs]
  BY <1>0 DEF ApiTyped
<1>4. ASSUME NEW r \in requests, Exchange(r) PROVE SignInInv'
  <2>1. CASE ~ Redeemable(r)
    <3>1. HandoffsFollowLogins'
      BY <1>0, <1>4, <2>1 DEF Exchange, HandoffsFollowLogins
    <3> QED
      BY <1>2, <1>3, <1>4, <2>1, <3>1 DEF Exchange
  <2>2. CASE Redeemable(r)
    <3> DEFINE h == handoff[r.code]
    <3>1. r.code \in Starts /\ h.status \in {"open", "redeemed"}
      BY <1>0, <2>2, Bounds DEF Redeemable, ApiTyped
    <3>2. handoff' = [handoff EXCEPT ![r.code] = Redeemed(h, r.channel)]
      BY <1>4, <2>2 DEF Exchange
    <3>3. r.channel \in Channels
      BY <1>0 DEF ApiTyped
    <3>4. h \in Handoffs
      BY <1>3, <3>1
    <3>9. h.minted \in Nat /\ h.minted <= 1 /\ (h.status # "redeemed" => h.minted = 0)
      BY <1>0, <3>1, <3>4 DEF Handoffs, HandoffsFollowLogins
    <3>10. ASSUME NEW k \in Nat
           PROVE  LET x == [h EXCEPT !.status = "redeemed", !.channel = r.channel, !.minted = k]
                  IN x \in Handoffs /\ x.status = "redeemed" /\ x.minted = k
      BY <3>3, <3>4 DEF Handoffs
    <3>11. Redeemed(h, r.channel) =
             IF h.status = "redeemed" THEN h
             ELSE [h EXCEPT !.status = "redeemed", !.channel = r.channel, !.minted = h.minted + 1]
      BY DEF Redeemed
    <3>12. h.status # "redeemed" => h.minted + 1 = 1
      BY <3>9
    <3>13. LET x == [h EXCEPT !.status = "redeemed", !.channel = r.channel, !.minted = 1]
           IN  x \in Handoffs /\ x.status = "redeemed" /\ x.minted = 1
      BY <3>10
    <3>14. \/ Redeemed(h, r.channel) = h /\ h.status = "redeemed"
           \/ Redeemed(h, r.channel) =
                [h EXCEPT !.status = "redeemed", !.channel = r.channel, !.minted = 1]
      BY <3>11, <3>12
    <3>5. Redeemed(h, r.channel) \in Handoffs
      BY <3>4, <3>13, <3>14
    <3>6. /\ Redeemed(h, r.channel).status = "redeemed"
          /\ Redeemed(h, r.channel).minted <= 1
      <4>1. CASE Redeemed(h, r.channel) = h /\ h.status = "redeemed"
        BY <3>9, <4>1
      <4>2. CASE Redeemed(h, r.channel) =
                   [h EXCEPT !.status = "redeemed", !.channel = r.channel, !.minted = 1]
        BY <3>13, <4>2
      <4> QED
        BY <3>14, <4>1, <4>2
    <3>7. handoff' \in [Starts -> Handoffs]
      BY <1>3, <3>2, <3>5
    <3>8. HandoffsFollowLogins'
      <4>1. login[r.code] = "gone" /\ login' = login
        BY <1>0, <1>4, <3>1 DEF Exchange, HandoffsFollowLogins
      <4>2. \A m \in Starts : m # r.code => handoff'[m] = handoff[m]
        BY <1>3, <3>2
      <4>3. handoff'[r.code] = Redeemed(h, r.channel)
        BY <1>3, <3>1, <3>2
      <4> HIDE DEF h
      <4> QED
        BY <1>0, <3>6, <4>1, <4>2, <4>3 DEF HandoffsFollowLogins
    <3> QED
      BY <1>2, <1>4, <2>2, <3>7, <3>8 DEF Exchange
  <2> QED
    BY <2>1, <2>2
<1>5. ASSUME NEW r \in requests, ExchangeUnavailable(r) PROVE SignInInv'
  <2>1. HandoffsFollowLogins'
    BY <1>0, <1>5 DEF ExchangeUnavailable, HandoffsFollowLogins
  <2> QED
    BY <1>2, <1>3, <1>5, <2>1 DEF ExchangeUnavailable
<1>6. ASSUME UNCHANGED <<tab, cookies, requests, answers, starts, sends>>,
             login' \in [Starts -> {"none", "pending", "gone"}], reserved' \subseteq Starts,
             handoff' \in [Starts -> Handoffs],
             \A m \in Starts : login[m] = "none" => login'[m] = "none",
             HandoffsFollowLogins', NoStrandedReservation'
      PROVE  SignInInv'
  <2>1. TabsTyped' /\ ApiTyped' /\ TabsHoldTheirOwn' /\ ExchangesMatch'
    BY <1>0, <1>6 DEF TabsTyped, ApiTyped, TabsHoldTheirOwn, ExchangesMatch
  <2>2. \A u \in Tabs : tab[u].page = "leaving" => tab[u].attempt \in Starts
    BY <1>0, Bounds DEF AttemptsApart, TabsTyped, TabStates
  <2>3. AttemptsApart'
    BY <1>0, <1>6, <2>2 DEF AttemptsApart
  <2> QED
    BY <1>6, <2>1, <2>3 DEF SignInInv
<1>7. ASSUME NEW n \in Starts, ReservationExpires(n) PROVE SignInInv'
  BY <1>0, <1>6, <1>7
     DEF ReservationExpires, ApiTyped, HandoffsFollowLogins, NoStrandedReservation
<1>8. ASSUME NEW n \in Starts, StateExpires(n) PROVE SignInInv'
  <2>1. login' = [login EXCEPT ![n] = "gone"] /\ n \notin reserved /\ login[n] = "pending"
        /\ UNCHANGED <<tab, cookies, reserved, handoff, requests, answers, starts, sends>>
    BY <1>8 DEF StateExpires
  <2>2. /\ login' \in [Starts -> {"none", "pending", "gone"}]
        /\ \A m \in Starts : m # n => login'[m] = login[m]
    BY <1>0, <2>1 DEF ApiTyped
  <2>3. HandoffsFollowLogins' /\ NoStrandedReservation'
    BY <1>0, <2>1, <2>2 DEF HandoffsFollowLogins, NoStrandedReservation, ApiTyped
  <2> QED
    BY <1>0, <1>3, <1>6, <2>1, <2>2, <2>3 DEF ApiTyped
<1>9. ASSUME NEW n \in Starts, HandoffExpires(n) PROVE SignInInv'
  <2>1. /\ handoff[n] \in Handoffs /\ handoff[n].status \in {"open", "redeemed"}
        /\ handoff' = [handoff EXCEPT ![n] = [handoff[n] EXCEPT !.status = "expired"]]
        /\ UNCHANGED <<tab, cookies, login, reserved, requests, answers, starts, sends>>
    BY <1>3, <1>9 DEF HandoffExpires
  <2>2. /\ [handoff[n] EXCEPT !.status = "expired"] \in Handoffs
        /\ [handoff[n] EXCEPT !.status = "expired"].status = "expired"
        /\ [handoff[n] EXCEPT !.status = "expired"].minted = handoff[n].minted
    BY <2>1 DEF Handoffs
  <2>3. /\ handoff' \in [Starts -> Handoffs]
        /\ \A m \in Starts : m # n => handoff'[m] = handoff[m]
        /\ handoff'[n].status = "expired" /\ handoff'[n].minted = handoff[n].minted
    BY <1>3, <2>1, <2>2
  <2>4. HandoffsFollowLogins' /\ NoStrandedReservation'
    BY <1>0, <2>1, <2>3 DEF HandoffsFollowLogins, NoStrandedReservation
  <2> QED
    BY <1>0, <1>6, <2>1, <2>3, <2>4 DEF ApiTyped
<1> QED
  BY <1>1, <1>4, <1>5, <1>7, <1>8, <1>9

\* Every step keeps the invariant.
LEMMA SignInSteps == SignInInv /\ [SignInNext]_signInVars => SignInInv'
<1> SUFFICES ASSUME SignInInv, [SignInNext]_signInVars PROVE SignInInv'
  OBVIOUS
<1>1. CASE UNCHANGED signInVars
  BY <1>1 DEF signInVars, SignInInv, TabsTyped, ApiTyped, AttemptsApart, HandoffsFollowLogins,
              NoStrandedReservation, TabsHoldTheirOwn, ExchangesMatch
<1>2. CASE SignInNext
  BY <1>2, StartKeeps, TabStepKeeps, LoginStepKeeps, ExchangeStepKeeps DEF SignInNext
<1> QED
  BY <1>1, <1>2

\* The inductive invariant of tabs, cookies, hand-off rows and reservations holds in every state.
THEOREM SignInInvariant == SignInSpec => []SignInInv
BY SignInStart, SignInSteps, PTL DEF SignInSpec

LEMMA SignInTyped == SignInInv => SignInTypeOK
<1> SUFFICES ASSUME SignInInv PROVE SignInTypeOK
  OBVIOUS
<1>1. ASSUME NEW t \in Tabs
      PROVE  /\ tab[t].page \in {"signin", "leaving", "google", "callback",
                                 "exchanging", "error", "dashboard"}
             /\ tab[t].user \in Accounts \cup {"none", "unread"}
             /\ tab[t].tries \in 0..Attempts
  <2>1. tab[t] \in TabStates
    BY DEF SignInInv, TabsTyped
  <2> QED
    BY <2>1 DEF TabStates, Pages
<1>2. ASSUME NEW t \in Tabs PROVE tab[t].verifier \in {0, tab[t].attempt}
  BY DEF SignInInv, TabsHoldTheirOwn
<1>3. ASSUME NEW n \in Starts PROVE handoff[n].account \in Accounts \cup {"none"}
  <2>1. handoff[n] \in Handoffs
    BY DEF SignInInv, ApiTyped
  <2> QED
    BY <2>1 DEF Handoffs
<1> QED
  BY <1>1, <1>2, <1>3 DEF SignInInv, ApiTyped, SignInTypeOK

\* SignIn.OneTokenPerHandoff: repeated, late and lost exchanges replay the
\* token that was minted.
THEOREM OneToken == SignInSpec => []OneTokenPerHandoff
<1>1. SignInInv => OneTokenPerHandoff
  BY DEF SignInInv, HandoffsFollowLogins, OneTokenPerHandoff
<1> QED
  BY <1>1, SignInInvariant, PTL

\* SignIn.NoStrandedReservation: a slot is given back with the login it was
\* taken for.
THEOREM NoneStranded == SignInSpec => []NoStrandedReservation
BY SignInInvariant, PTL DEF SignInInv

\* SignIn.OwnAccount: a tab that kept its verifier asks with the code of its
\* own attempt, and takes no answer to another request.
THEOREM EntersAsItself == SignInSpec => OwnAccount
<1>1. ASSUME SignInInv, SignInNext, NEW t \in Tabs,
             tab[t].page = "exchanging", tab'[t].page = "dashboard", tab[t].own
      PROVE  cookies'.session = tab[t].attempt
  <2>0. TabsTyped /\ ApiTyped /\ TabsHoldTheirOwn /\ ExchangesMatch
    BY <1>1 DEF SignInInv
  <2>1. tab[t] \in TabStates
    BY <2>0 DEF TabsTyped
  <2>2. ASSUME NEW u \in Tabs, NEW r, tab' = [tab EXCEPT ![u] = r],
               u = t => r.page # "dashboard"
        PROVE  FALSE
    BY <1>1, <2>0, <2>2 DEF TabsTyped
  <2>3. CASE \E u \in Tabs : \/ StartGoogleSso(u) \/ StartThrows(u) \/ BackFromGoogle(u)
                             \/ GoogleLogin(u) \/ GoogleLoginFails(u) \/ WrongState(u)
                             \/ CallbackFails(u) \/ \E a \in Accounts : GoogleCallback(u, a)
                             \/ LoadCallback(u) \/ RetrySignIn(u) \/ BackToLogin(u)
                             \/ \E failed \in BOOLEAN : ReadSession(u, failed)
                             \/ \E reached \in BOOLEAN : SignOut(u, reached)
    <3>1. PICK u \in Tabs : \/ StartGoogleSso(u) \/ StartThrows(u) \/ BackFromGoogle(u)
                            \/ GoogleLogin(u) \/ GoogleLoginFails(u) \/ WrongState(u)
                            \/ CallbackFails(u) \/ \E a \in Accounts : GoogleCallback(u, a)
                            \/ LoadCallback(u) \/ RetrySignIn(u) \/ BackToLogin(u)
                            \/ \E failed \in BOOLEAN : ReadSession(u, failed)
                            \/ \E reached \in BOOLEAN : SignOut(u, reached)
      BY <2>3
    <3>2. u # t
      BY <1>1, <3>1
         DEF StartGoogleSso, StartThrows, CanStart, BackFromGoogle, GoogleLogin, GoogleLoginFails,
             WrongState, CallbackFails, GoogleCallback, LoadCallback, RetrySignIn, BackToLogin,
             ReadSession, SignOut
    <3>3. \E r : tab' = [tab EXCEPT ![u] = r]
      BY <3>1
         DEF StartGoogleSso, StartThrows, BackFromGoogle, GoogleLogin, GoogleLoginFails,
             WrongState, CallbackFails, GoogleCallback, LoadCallback, RetrySignIn, BackToLogin,
             ReadSession, SignOut, Redirected
    <3> QED
      BY <2>2, <3>2, <3>3
  <2>4. ASSUME NEW u \in Tabs, VerifierExpires(u) \/ CallbackInvalid(u) PROVE FALSE
    <3>1. CASE VerifierExpires(u)
      <4>1. u = t => Cleared(tab[u]).page # "dashboard"
        BY <1>1, <2>1 DEF Cleared, TabStates
      <4> QED
        BY <2>2, <3>1, <4>1 DEF VerifierExpires
    <3>2. CASE CallbackInvalid(u)
      <4>1. u # t
        BY <1>1, <3>2 DEF CallbackInvalid
      <4> QED
        BY <2>2, <3>2, <4>1 DEF CallbackInvalid
    <3> QED
      BY <2>4, <3>1, <3>2
  <2>5. ASSUME NEW u \in Tabs, RequestExchange(u) \/ Timeout(u) PROVE FALSE
    <3>1. u = t => RetryOrShow(tab[u]).page # "dashboard"
      BY <1>1, <2>1 DEF RetryOrShow, Interrupted, TabStates
    <3>2. CASE Timeout(u)
      BY <2>2, <3>1, <3>2 DEF Timeout
    <3>3. CASE RequestExchange(u)
      <4>1. u = t => [tab[u] EXCEPT !.waiting = sends + 1, !.tries = tab[u].tries - 1].page
                       # "dashboard"
        BY <1>1, <2>1 DEF TabStates
      <4> QED
        BY <2>2, <3>3, <4>1 DEF RequestExchange
    <3> QED
      BY <2>5, <3>2, <3>3
  <2>6. ASSUME NEW u \in Tabs, NEW a \in answers, ReceiveAnswer(u, a)
        PROVE  cookies'.session = tab[t].attempt
    <3>1. PICK r : tab' = [tab EXCEPT ![u] = r]
      BY <2>6 DEF ReceiveAnswer
    <3>2. u = t
      BY <1>1, <2>2, <3>1
    <3>3. a.status \in {"ok", "unavailable", "invalid"}
      BY <2>0 DEF ApiTyped
    <3>4. a.status = "ok"
      <4>1. /\ Interrupted(tab[t], FALSE).page # "dashboard"
            /\ RetryOrShow(tab[t]).page # "dashboard"
        BY <1>1, <2>1 DEF RetryOrShow, Interrupted, Cleared, TabStates
      <4>2. CASE a.status = "invalid"
        BY <2>2, <2>6, <3>2, <4>1, <4>2 DEF ReceiveAnswer
      <4>3. CASE a.status = "unavailable"
        BY <2>2, <2>6, <3>2, <4>1, <4>3 DEF ReceiveAnswer
      <4> QED
        BY <3>3, <4>2, <4>3
    <3>5. /\ tab[t].waiting = a.id
          /\ tab[t].selected.channel = "body" /\ tab[t].selected.code = tab[t].attempt
      <4>1. tab[t].own = TRUE
        BY <1>1, <2>1 DEF TabStates
      <4> QED
        BY <1>1, <2>0, <2>6, <3>2, <4>1 DEF ReceiveAnswer, TabsHoldTheirOwn
    <3>6. a.token = tab[t].attempt
      BY <2>0, <3>4, <3>5 DEF ExchangesMatch
    <3>7. cookies' = [cookies EXCEPT !.session = a.token, !.handoff = 0]
      BY <2>6, <3>4 DEF ReceiveAnswer
    <3> QED
      BY <2>0, <3>6, <3>7 DEF ApiTyped
  <2>7. CASE UNCHANGED tab
    BY <1>1, <2>7
  <2> QED
    BY <1>1, <2>3, <2>4, <2>5, <2>6, <2>7
       DEF SignInNext, ReservationExpires, StateExpires, HandoffExpires, Exchange,
           ExchangeUnavailable
<1>2. SignInInv /\ [SignInNext]_signInVars =>
        [\A t \in Tabs :
           tab[t].page = "exchanging" /\ tab'[t].page = "dashboard" /\ tab[t].own
             => cookies'.session = tab[t].attempt]_signInVars
  BY <1>1
<1> QED
  BY <1>2, SignInInvariant, PTL DEF SignInSpec, OwnAccount

-----------------------------------------------------------------------------
(* Organizations and onboarding                                            *)

Org == [id : Nat, owner : People, kind : {"personal", "company"},
        name : Nat, street : Nat, state : Nat]

NoneOrOne == {<<>>} \cup {<<v>> : v \in Nat}

\* An organization is kept under its id, with a name that was typed before.
OrgsTyped ==
  /\ orgs \in Seq(Org) /\ Len(orgs) <= MaxOrgs
  /\ \A i \in DOMAIN orgs : orgs[i].id = i /\ orgs[i].name <= valuesUsed

DraftTyped ==
  /\ orgDraft \in [name : NoneOrOne, street : NoneOrOne, state : NoneOrOne]
  /\ orgDraft.name # <<>> => orgDraft.name[1] <= valuesUsed

\* A list has organizations of the person who is signed in.
Owned(items) ==
  /\ items \subseteq Org
  /\ \A o \in items : o.id \in DOMAIN orgs /\ orgs[o.id].owner = person

\* ... also while it is on its way: a sign-in drops the calls of the one before.
AnswersOwned ==
  \A c \in orgCalls :
    /\ c.op = "load" => Owned(c.items)
    /\ c.op = "create" /\ c.ok => c.id \in DOMAIN orgs

ShellOwned ==
  /\ shell \in [listed : SUBSET Org, active : Nat, loading : BOOLEAN]
  /\ Owned(shell.listed)
  /\ shell.active # 0 => shell.active \in DOMAIN orgs /\ orgs[shell.active].owner = person

RestTyped ==
  /\ aiConsent \subseteq People /\ person \in People
  /\ place \in {"dashboard", "onboarding"}
  /\ storedOrg = 0 \/ storedOrg \in DOMAIN orgs
  /\ orgSaving \in BOOLEAN /\ valuesUsed \in 0..MaxTyped

OrgInv == OrgsTyped /\ DraftTyped /\ AnswersOwned /\ ShellOwned /\ RestTyped

-----------------------------------------------------------------------------
(* Lemmas                                                                  *)

\* A list that is not empty has a first organization.
LEMMA FirstIsListed ==
  ASSUME NEW items \in SUBSET Org, items # {}
  PROVE  FirstOf(items) \in items
<1> DEFINE ids == {o.id : o \in items}
<1>1. ids \subseteq Nat /\ ids # {}
  BY DEF Org
<1>2. PICK n \in ids : \A m \in ids : ~ (<<m, n>> \in OpToRel(<, Nat))
  BY <1>1, NatLessThanWellFounded, WFMin, Zenon
<1>3. \A m \in ids : ~ (m < n)
  BY <1>1, <1>2, Zenon DEF OpToRel
<1>4. PICK o \in items : o.id = n
  BY <1>2
<1>5. \A q \in items : o.id <= q.id
  BY <1>1, <1>3, <1>4
<1> QED
  BY <1>5 DEF FirstOf

\* The organization chosen from a list is one of the list.
LEMMA ChosenIsOwned ==
  ASSUME OrgInv, NEW items, Owned(items), items # {}
  PROVE  Chosen(items) \in DOMAIN orgs /\ Chosen(items) \in Nat /\ orgs[Chosen(items)].owner = person
<1> DEFINE Personal == {o \in items : o.kind = "personal"}
           pool == IF Personal # {} THEN Personal ELSE items
<1>1. items \subseteq Org /\ \A o \in items : o.id \in DOMAIN orgs /\ orgs[o.id].owner = person
  BY DEF Owned
<1>2. FirstOf(pool) \in items
  <2>1. pool \in SUBSET Org /\ pool # {} /\ pool \subseteq items
    BY <1>1
  <2> QED
    BY <2>1, FirstIsListed
<1>3. \E o \in items : Chosen(items) = o.id
  BY <1>2 DEF Chosen
<1> QED
  BY <1>1, <1>3 DEF Org

\* An organization that is kept has its fields.
LEMMA OrgFields ==
  ASSUME OrgInv, NEW i \in DOMAIN orgs
  PROVE  /\ orgs[i] \in Org /\ orgs[i].name \in Nat /\ orgs[i].owner \in People
         /\ orgs[i].id = i /\ orgs[i].name <= valuesUsed
         /\ i \in 0..MaxOrgs
<1>1. /\ orgs \in Seq(Org) /\ Len(orgs) <= MaxOrgs
      /\ orgs[i].id = i /\ orgs[i].name <= valuesUsed
  BY DEF OrgInv, OrgsTyped
<1>2. orgs[i] \in Org /\ i \in 1..Len(orgs) /\ Len(orgs) \in Nat
  BY <1>1
<1> QED
  BY <1>1, <1>2, OrgWorkspaceAssumption DEF Org

\* What is owned stays so while no organization goes or changes hands.
LEMMA OwnedStays ==
  ASSUME OrgInv, person' = person,
         \A i \in DOMAIN orgs : i \in DOMAIN orgs' /\ orgs'[i].owner = orgs[i].owner
  PROVE  /\ \A items : Owned(items) => Owned(items)'
         /\ shell' = shell => ShellOwned'
         /\ (\A c \in orgCalls' \ orgCalls :
               c.op # "load" /\ (c.op = "create" /\ c.ok => c.id \in DOMAIN orgs'))
              => AnswersOwned'
<1>1. ASSUME NEW items, Owned(items) PROVE (Owned(items))'
  BY <1>1 DEF Owned
<1>2. ASSUME shell' = shell PROVE ShellOwned'
  BY <1>2 DEF OrgInv, ShellOwned, Owned
<1>3. ASSUME \A c \in orgCalls' \ orgCalls :
               c.op # "load" /\ (c.op = "create" /\ c.ok => c.id \in DOMAIN orgs')
      PROVE  AnswersOwned'
  BY <1>3 DEF OrgInv, AnswersOwned, Owned
<1> QED
  BY <1>1, <1>2, <1>3

\* What a person owns is owned.
LEMMA OrgsOfOwned ==
  ASSUME OrgInv, NEW p \in People
  PROVE  /\ OrgsOf(p) \subseteq Org
         /\ \A o \in OrgsOf(p) : o.id \in DOMAIN orgs /\ orgs[o.id].owner = p
BY DEF OrgInv, OrgsTyped, OrgsOf

\* A freshly mounted dashboard is in order.
LEMMA MountKeeps ==
  ASSUME OrgInv, ToDashboard(person'), person' \in People,
         UNCHANGED <<orgs, aiConsent, storedOrg, valuesUsed>>
  PROVE  OrgInv'
<1>1. OrgsTyped'
  BY DEF OrgInv, OrgsTyped
<1>2. DraftTyped'
  BY DEF OrgInv, DraftTyped, ToDashboard, NothingTyped, NoneOrOne
<1>3. AnswersOwned'
  BY OrgsOfOwned DEF OrgInv, AnswersOwned, Owned, ToDashboard
<1>4. ShellOwned'
  BY DEF OrgInv, ShellOwned, Owned, ToDashboard, Fresh
<1>5. RestTyped'
  BY DEF OrgInv, RestTyped, ToDashboard
<1> QED
  BY <1>1, <1>2, <1>3, <1>4, <1>5 DEF OrgInv

-----------------------------------------------------------------------------
(* The invariant                                                           *)

LEMMA OrgStart == OrgWorkspaceInit => OrgInv
<1> SUFFICES ASSUME OrgWorkspaceInit PROVE OrgInv
  OBVIOUS
<1>1. OrgsTyped
  BY OrgWorkspaceAssumption DEF OrgWorkspaceInit, OrgsTyped
<1>2. DraftTyped
  BY DEF OrgWorkspaceInit, DraftTyped, NothingTyped, NoneOrOne
<1>3. AnswersOwned /\ ShellOwned
  BY DEF OrgWorkspaceInit, AnswersOwned, ShellOwned, Owned, Fresh
<1>4. RestTyped
  <2>1. valuesUsed \in 0..MaxTyped
    BY OrgWorkspaceAssumption DEF OrgWorkspaceInit
  <2> QED
    BY <2>1 DEF OrgWorkspaceInit, RestTyped
<1> QED
  BY <1>1, <1>2, <1>3, <1>4 DEF OrgInv

\* A step that leaves the organizations, the person and the draft alone.
LEMMA ShellSteps ==
  ASSUME OrgInv, UNCHANGED <<orgs, person, valuesUsed, aiConsent>>,
         DraftTyped', AnswersOwned', ShellOwned',
         storedOrg' = 0 \/ storedOrg' \in DOMAIN orgs,
         place' \in {"dashboard", "onboarding"}, orgSaving' \in BOOLEAN
  PROVE  OrgInv'
BY DEF OrgInv, OrgsTyped, RestTyped

LEMMA LoadKeeps == OrgInv /\ (OrgsLoad \/ OrgsFail) => OrgInv'
<1> SUFFICES ASSUME OrgInv, OrgsLoad \/ OrgsFail PROVE OrgInv'
  OBVIOUS
<1>1. UNCHANGED <<orgs, person, valuesUsed, aiConsent, orgDraft, storedOrg, place, orgSaving>>
  BY DEF OrgsLoad, OrgsFail
<1>2. orgCalls' \subseteq orgCalls
  BY DEF OrgsLoad, OrgsFail, OrgAnswered
<1>3. DraftTyped' /\ AnswersOwned'
  BY <1>1, <1>2 DEF OrgInv, DraftTyped, AnswersOwned, Owned
<1>4. ShellOwned'
  <2>1. CASE OrgsLoad
    <3>1. PICK c \in orgCalls :
            /\ c.op = "load"
            /\ shell' = [listed |-> c.items,
                         active |-> IF c.items = {} THEN shell.active ELSE Chosen(c.items),
                         loading |-> FALSE]
      BY <2>1 DEF OrgsLoad
    <3>2. Owned(c.items)
      BY <3>1 DEF OrgInv, AnswersOwned
    <3>3. c.items # {} => /\ Chosen(c.items) \in DOMAIN orgs /\ Chosen(c.items) \in Nat
                          /\ orgs[Chosen(c.items)].owner = person
      BY <3>2, ChosenIsOwned
    <3> QED
      BY <1>1, <3>1, <3>2, <3>3 DEF OrgInv, ShellOwned, Owned
  <2>2. CASE OrgsFail
    BY <1>1, <2>2 DEF OrgInv, ShellOwned, Owned, OrgsFail
  <2> QED
    BY <2>1, <2>2
<1> QED
  BY <1>1, <1>3, <1>4, ShellSteps DEF OrgInv, RestTyped

LEMMA LeaveKeeps == OrgInv /\ (FirstRunGuard \/ CreateAnother) => OrgInv'
<1> SUFFICES ASSUME OrgInv, FirstRunGuard \/ CreateAnother PROVE OrgInv'
  OBVIOUS
<1>1. /\ UNCHANGED <<orgs, person, valuesUsed, aiConsent, storedOrg>>
      /\ shell' = Fresh /\ orgDraft' = NothingTyped /\ orgCalls' = {}
      /\ place' = "onboarding" /\ orgSaving' = FALSE
  BY DEF FirstRunGuard, CreateAnother
<1>2. DraftTyped'
  BY <1>1 DEF DraftTyped, NothingTyped, NoneOrOne
<1>3. AnswersOwned' /\ ShellOwned'
  BY <1>1 DEF AnswersOwned, ShellOwned, Owned, Fresh
<1> QED
  BY <1>1, <1>2, <1>3, ShellSteps DEF OrgInv, RestTyped

LEMMA SelectKeeps == OrgInv /\ OnOrgSelect => OrgInv'
<1> SUFFICES ASSUME OrgInv, OnOrgSelect PROVE OrgInv'
  OBVIOUS
<1>1. PICK o \in shell.listed : shell' = [shell EXCEPT !.active = o.id] /\ storedOrg' = o.id
  BY DEF OnOrgSelect
<1>2. UNCHANGED <<orgs, person, valuesUsed, aiConsent, orgDraft, place, orgSaving, orgCalls>>
  BY DEF OnOrgSelect
<1>3. o \in Org /\ o.id \in DOMAIN orgs /\ orgs[o.id].owner = person
  BY DEF OrgInv, ShellOwned, Owned
<1>4. DraftTyped' /\ AnswersOwned'
  BY <1>2 DEF OrgInv, DraftTyped, AnswersOwned, Owned
<1>5. ShellOwned'
  BY <1>1, <1>2, <1>3 DEF OrgInv, ShellOwned, Owned, Org
<1> QED
  BY <1>1, <1>2, <1>3, <1>4, <1>5, ShellSteps DEF OrgInv, RestTyped

LEMMA MountSteps ==
  OrgInv /\ (Reload \/ (\E p \in People : SignInAs(p)) \/ NotNow) => OrgInv'
<1> SUFFICES ASSUME OrgInv, Reload \/ (\E p \in People : SignInAs(p)) \/ NotNow PROVE OrgInv'
  OBVIOUS
<1>1. person' \in People /\ ToDashboard(person')
  BY DEF Reload, SignInAs, NotNow, OrgInv, RestTyped
<1>2. UNCHANGED <<orgs, aiConsent, storedOrg, valuesUsed>>
  BY DEF Reload, SignInAs, NotNow
<1> QED
  BY <1>1, <1>2, MountKeeps

LEMMA SubmitKeeps == OrgInv /\ SubmitOrg => OrgInv'
<1> SUFFICES ASSUME OrgInv, SubmitOrg PROVE OrgInv'
  OBVIOUS
<1>1. UNCHANGED <<aiConsent, person, place, storedOrg, shell, orgDraft, orgSaving, valuesUsed>>
  BY DEF SubmitOrg
<1>2. /\ \A i \in DOMAIN orgs : i \in DOMAIN orgs' /\ orgs'[i] = orgs[i]
      /\ OrgsTyped'
      /\ \A c \in orgCalls' \ orgCalls :
           c.op # "load" /\ (c.op = "create" /\ c.ok => c.id \in DOMAIN orgs')
  <2>1. CASE \E kind \in {"personal", "company"} : orgs' = Append(orgs, NewOrg(kind))
    <3>1. PICK kind \in {"personal", "company"} : orgs' = Append(orgs, NewOrg(kind))
      BY <2>1
    <3>2. NewOrg(kind) \in Org /\ NewOrg(kind).id = Len(orgs) + 1 /\ NewOrg(kind).name = 0
      BY DEF NewOrg, Org, OrgInv, OrgsTyped, RestTyped
    <3>3. orgs' \in Seq(Org) /\ Len(orgs') = Len(orgs) + 1 /\ orgs'[Len(orgs')] = NewOrg(kind)
          /\ DOMAIN orgs' = 1..Len(orgs') /\ \A i \in 1..Len(orgs) : orgs'[i] = orgs[i]
      BY <3>1, <3>2 DEF OrgInv, OrgsTyped
    <3>4. DOMAIN orgs = 1..Len(orgs) /\ Len(orgs) \in Nat
      BY DEF OrgInv, OrgsTyped
    <3>5. Len(orgs') <= MaxOrgs
      BY <3>3, <3>4, OrgWorkspaceAssumption DEF SubmitOrg
    <3>6. \A i \in DOMAIN orgs' : orgs'[i].id = i /\ orgs'[i].name <= valuesUsed'
      BY <1>1, <3>2, <3>3, <3>4, OrgWorkspaceAssumption DEF OrgInv, OrgsTyped, RestTyped
    <3>7. \A c \in orgCalls' \ orgCalls :
            c.op # "load" /\ (c.ok => c.id = Len(orgs'))
      BY DEF SubmitOrg
    <3> QED
      BY <3>3, <3>4, <3>5, <3>6, <3>7 DEF OrgsTyped
  <2>2. CASE UNCHANGED orgs /\ orgCalls' = orgCalls \cup {[op |-> "create", ok |-> FALSE, id |-> 0]}
    BY <1>1, <2>2 DEF OrgInv, OrgsTyped
  <2> QED
    BY <2>1, <2>2 DEF SubmitOrg
<1>3. AnswersOwned' /\ ShellOwned'
  BY <1>1, <1>2, OwnedStays
<1>4. DraftTyped'
  BY <1>1 DEF OrgInv, DraftTyped
<1>5. RestTyped'
  BY <1>1, <1>2 DEF OrgInv, RestTyped
<1> QED
  BY <1>2, <1>3, <1>4, <1>5 DEF OrgInv

LEMMA OnboardingKeeps == OrgInv /\ (OrgCreated \/ AllowAi) => OrgInv'
<1> SUFFICES ASSUME OrgInv, OrgCreated \/ AllowAi PROVE OrgInv'
  OBVIOUS
<1>1. UNCHANGED <<orgs, person, place, shell, orgDraft, orgSaving, valuesUsed>>
  BY DEF OrgCreated, AllowAi
<1>2. \A c \in orgCalls' \ orgCalls : c.op = "consent"
  BY DEF OrgCreated, AllowAi, OrgAnswered
<1>3. AnswersOwned' /\ ShellOwned'
  BY <1>1, <1>2, OwnedStays
<1>4. OrgsTyped' /\ DraftTyped'
  BY <1>1 DEF OrgInv, OrgsTyped, DraftTyped
<1>5. RestTyped'
  <2>1. storedOrg' = 0 \/ storedOrg' \in DOMAIN orgs
    <3>1. CASE OrgCreated
      BY <3>1 DEF OrgCreated, OrgInv, AnswersOwned, RestTyped
    <3>2. CASE AllowAi
      BY <3>2 DEF AllowAi, OrgInv, RestTyped
    <3> QED
      BY <3>1, <3>2
  <2>2. aiConsent' \subseteq People
    BY DEF OrgCreated, AllowAi, OrgInv, RestTyped
  <2> QED
    BY <1>1, <2>1, <2>2 DEF OrgInv, RestTyped
<1> QED
  BY <1>3, <1>4, <1>5 DEF OrgInv

LEMMA ConsentKeeps == OrgInv /\ ConsentAnswered => OrgInv'
<1> SUFFICES ASSUME OrgInv, ConsentAnswered PROVE OrgInv'
  OBVIOUS
<1>1. UNCHANGED <<orgs, aiConsent, person, storedOrg, valuesUsed>>
  BY DEF ConsentAnswered
<1>2. CASE ToDashboard(person)
  BY <1>1, <1>2, MountKeeps DEF OrgInv, RestTyped
<1>3. CASE /\ UNCHANGED <<place, shell, orgDraft, orgSaving>>
           /\ orgCalls' \subseteq orgCalls
  <2>1. AnswersOwned' /\ ShellOwned'
    BY <1>1, <1>3, OwnedStays
  <2> QED
    BY <1>1, <1>3, <2>1, ShellSteps DEF OrgInv, DraftTyped, RestTyped
<1> QED
  BY <1>2, <1>3 DEF ConsentAnswered, OrgAnswered

LEMMA TypeKeeps == OrgInv /\ (TypeName \/ TypeStreet \/ TypeState) => OrgInv'
<1> SUFFICES ASSUME OrgInv, TypeName \/ TypeStreet \/ TypeState PROVE OrgInv'
  OBVIOUS
<1>1. /\ UNCHANGED <<orgs, aiConsent, person, place, storedOrg, shell, orgSaving, orgCalls>>
      /\ valuesUsed < MaxTyped /\ valuesUsed' = valuesUsed + 1
  BY DEF TypeName, TypeStreet, TypeState, Type
<1>2. valuesUsed \in Nat /\ valuesUsed' \in 0..MaxTyped
  BY <1>1, OrgWorkspaceAssumption DEF OrgInv, RestTyped
<1>3. OrgsTyped' /\ RestTyped'
  <2>1. \A i \in DOMAIN orgs : orgs[i].id = i /\ orgs[i].name <= valuesUsed + 1
    BY <1>2, OrgFields
  <2>2. OrgsTyped'
    BY <1>1, <2>1 DEF OrgInv, OrgsTyped
  <2> QED
    BY <1>1, <1>2, <2>2 DEF OrgInv, RestTyped
<1>4. AnswersOwned' /\ ShellOwned'
  BY <1>1, OwnedStays
<1>5. DraftTyped'
  <2>1. <<valuesUsed + 1>> \in NoneOrOne /\ <<0>> \in NoneOrOne
    BY <1>2 DEF NoneOrOne
  <2>2. CASE TypeName
    BY <1>1, <1>2, <2>1, <2>2 DEF OrgInv, DraftTyped, TypeName, Type
  <2>3. ASSUME NEW o \in ActiveOrg, NEW v \in {0, valuesUsed + 1},
               \/ orgDraft' = [orgDraft EXCEPT !.street = <<valuesUsed + 1>>,
                                               !.state = Kept(@, o.state)]
               \/ orgDraft' = [orgDraft EXCEPT !.street = Kept(@, o.street), !.state = <<v>>]
        PROVE  DraftTyped'
    <3>1. o.street \in Nat /\ o.state \in Nat
      BY DEF ActiveOrg, IsListed, ListedOrg, OrgInv, ShellOwned, Org
    <3>2. \A s \in NoneOrOne, old \in Nat : Kept(s, old) \in NoneOrOne
      BY DEF Kept, NoneOrOne
    <3>3. /\ orgDraft \in [name : NoneOrOne, street : NoneOrOne, state : NoneOrOne]
          /\ orgDraft.name # <<>> => orgDraft.name[1] <= valuesUsed
      BY DEF OrgInv, DraftTyped
    <3>4. Kept(orgDraft.street, o.street) \in NoneOrOne /\ Kept(orgDraft.state, o.state) \in NoneOrOne
          /\ <<v>> \in NoneOrOne
      BY <2>1, <3>1, <3>2, <3>3
    <3>5. /\ orgDraft' \in [name : NoneOrOne, street : NoneOrOne, state : NoneOrOne]
          /\ orgDraft'.name = orgDraft.name
      BY <2>1, <2>3, <3>3, <3>4
    <3>6. orgDraft.name # <<>> => orgDraft.name[1] \in Nat
      BY <3>3 DEF NoneOrOne
    <3>7. orgDraft'.name # <<>> => orgDraft'.name[1] <= valuesUsed'
      BY <1>1, <1>2, <3>3, <3>5, <3>6
    <3> QED
      BY <3>5, <3>7 DEF DraftTyped
  <2> QED
    BY <2>2, <2>3 DEF TypeStreet, TypeState, Type
<1> QED
  BY <1>3, <1>4, <1>5 DEF OrgInv

LEMMA SaveKeeps == OrgInv /\ SaveOrg => OrgInv'
<1> SUFFICES ASSUME OrgInv, SaveOrg PROVE OrgInv'
  OBVIOUS
<1>1. /\ UNCHANGED <<aiConsent, person, place, storedOrg, shell, orgDraft, valuesUsed>>
      /\ orgSaving' = TRUE
  BY DEF SaveOrg
<1>2. PICK street \in NoneOrOne, state \in NoneOrOne :
        orgs' = [orgs EXCEPT ![shell.active] = PatchedOrg(@, orgDraft.name, street, state)]
  BY DEF SaveOrg, OrgInv, DraftTyped, NoneOrOne
<1>3. shell.active \in DOMAIN orgs
  BY DEF SaveOrg, ActiveOrg, IsListed, OrgInv, ShellOwned, Owned
<1>4. ASSUME NEW o \in Org, o.name <= valuesUsed
      PROVE  /\ PatchedOrg(o, orgDraft.name, street, state) \in Org
             /\ PatchedOrg(o, orgDraft.name, street, state).id = o.id
             /\ PatchedOrg(o, orgDraft.name, street, state).owner = o.owner
             /\ PatchedOrg(o, orgDraft.name, street, state).name <= valuesUsed
  <2>1. ASSUME NEW s \in NoneOrOne, s # <<>> PROVE s[1] \in Nat
    BY <2>1 DEF NoneOrOne
  <2>2. orgDraft.name \in NoneOrOne /\ (orgDraft.name # <<>> => orgDraft.name[1] <= valuesUsed)
    BY DEF OrgInv, DraftTyped
  <2> QED
    BY <1>4, <2>1, <2>2 DEF PatchedOrg, Org
<1>5. \A i \in DOMAIN orgs : i \in DOMAIN orgs' /\ orgs'[i].owner = orgs[i].owner
  BY <1>2, <1>3, <1>4 DEF OrgInv, OrgsTyped
<1>6. OrgsTyped'
  BY <1>1, <1>2, <1>3, <1>4 DEF OrgInv, OrgsTyped
<1>7. AnswersOwned' /\ ShellOwned'
  BY <1>1, <1>5, OwnedStays DEF SaveOrg
<1>8. DraftTyped' /\ RestTyped'
  BY <1>1, <1>5 DEF OrgInv, DraftTyped, RestTyped
<1> QED
  BY <1>6, <1>7, <1>8 DEF OrgInv

LEMMA SavedKeeps == OrgInv /\ OrgSaved => OrgInv'
<1> SUFFICES ASSUME OrgInv, OrgSaved PROVE OrgInv'
  OBVIOUS
<1>1. /\ UNCHANGED <<orgs, aiConsent, person, place, storedOrg, shell, valuesUsed>>
      /\ orgCalls' \subseteq orgCalls /\ orgSaving' = FALSE
      /\ orgDraft' \in {orgDraft, NothingTyped}
  BY DEF OrgSaved, OrgAnswered
<1>2. AnswersOwned' /\ ShellOwned'
  BY <1>1, OwnedStays
<1>3. DraftTyped'
  BY <1>1 DEF OrgInv, DraftTyped, NothingTyped, NoneOrOne
<1> QED
  BY <1>1, <1>2, <1>3, ShellSteps DEF OrgInv, RestTyped

LEMMA RenamedKeeps == OrgInv /\ RenamedElsewhere => OrgInv'
<1> SUFFICES ASSUME OrgInv, RenamedElsewhere PROVE OrgInv'
  OBVIOUS
<1>1. /\ UNCHANGED <<aiConsent, person, place, storedOrg, shell, orgDraft, orgSaving, orgCalls>>
      /\ valuesUsed < MaxTyped /\ valuesUsed' = valuesUsed + 1
  BY DEF RenamedElsewhere
<1>2. valuesUsed \in Nat /\ valuesUsed' \in 0..MaxTyped
  BY <1>1, OrgWorkspaceAssumption DEF OrgInv, RestTyped
<1>3. PICK i \in DOMAIN orgs : orgs' = [orgs EXCEPT ![i].name = valuesUsed + 1]
  BY DEF RenamedElsewhere
<1>4. OrgsTyped' /\ \A j \in DOMAIN orgs : j \in DOMAIN orgs' /\ orgs'[j].owner = orgs[j].owner
  <2>1. orgs \in Seq(Org) /\ Len(orgs) <= MaxOrgs
    BY DEF OrgInv, OrgsTyped
  <2> DEFINE renamed == [orgs[i] EXCEPT !.name = valuesUsed + 1]
  <2>2. /\ renamed \in Org /\ renamed.id = i
        /\ renamed.owner = orgs[i].owner /\ renamed.name = valuesUsed'
    BY <1>1, <1>2, OrgFields DEF Org
  <2>3. orgs' = [orgs EXCEPT ![i] = renamed]
    BY <1>3
  <2> HIDE DEF renamed
  <2>4. orgs' \in Seq(Org) /\ Len(orgs') = Len(orgs) /\ DOMAIN orgs' = DOMAIN orgs
    BY <2>1, <2>2, <2>3
  <2>5. \A j \in DOMAIN orgs : orgs'[j] = IF j = i THEN renamed ELSE orgs[j]
    BY <2>1, <2>3
  <2>6. \A j \in DOMAIN orgs : orgs[j].id = j /\ orgs[j].name <= valuesUsed'
    BY <1>1, <1>2, OrgFields
  <2>7. \A j \in DOMAIN orgs : orgs'[j].id = j /\ orgs'[j].name <= valuesUsed'
    BY <1>2, <2>2, <2>5, <2>6
  <2>8. OrgsTyped'
    BY <2>1, <2>4, <2>7 DEF OrgsTyped
  <2> QED
    BY <2>2, <2>4, <2>5, <2>8
<1>5. AnswersOwned' /\ ShellOwned'
  BY <1>1, <1>4, OwnedStays
<1>6. DraftTyped'
  BY <1>1, <1>2 DEF OrgInv, DraftTyped, NoneOrOne
<1>7. RestTyped'
  BY <1>1, <1>2, <1>4 DEF OrgInv, RestTyped
<1> QED
  BY <1>4, <1>5, <1>6, <1>7 DEF OrgInv

LEMMA OrgInductive == OrgInv /\ [OrgWorkspaceNext]_orgVars => OrgInv'
<1> SUFFICES ASSUME OrgInv, [OrgWorkspaceNext]_orgVars PROVE OrgInv'
  OBVIOUS
<1>1. CASE OrgWorkspaceNext
  BY <1>1, LoadKeeps, LeaveKeeps, SelectKeeps, MountSteps, SubmitKeeps, OnboardingKeeps,
     ConsentKeeps, TypeKeeps, SaveKeeps, SavedKeeps, RenamedKeeps DEF OrgWorkspaceNext
<1>2. CASE UNCHANGED orgVars
  BY <1>2 DEF OrgInv, orgVars, OrgsTyped, DraftTyped, AnswersOwned, ShellOwned, Owned, RestTyped
<1> QED
  BY <1>1, <1>2

LEMMA OrgAlways == OrgWorkspaceSpec => []OrgInv
  BY OrgStart, OrgInductive, PTL DEF OrgWorkspaceSpec

-----------------------------------------------------------------------------
(* Theorems                                                                *)

LEMMA OrgSays == OrgInv => OrgWorkspaceTypeOK
<1> SUFFICES ASSUME OrgInv PROVE OrgWorkspaceTypeOK
  OBVIOUS
<1>1. orgs \in Seq(Org) /\ Len(orgs) <= MaxOrgs /\ \A i \in DOMAIN orgs : orgs[i].id = i
  BY DEF OrgInv, OrgsTyped
<1>2. \A i \in DOMAIN orgs : i \in 0..MaxOrgs /\ orgs[i].owner \in People
  BY OrgFields
<1>3. shell.active \in 0..MaxOrgs /\ storedOrg \in 0..MaxOrgs /\ shell.loading \in BOOLEAN
  BY <1>2, OrgWorkspaceAssumption DEF OrgInv, ShellOwned, RestTyped
<1> QED
  BY <1>1, <1>2, <1>3 DEF OrgWorkspaceTypeOK, OrgInv, RestTyped

\* The shell, the onboarding and the profile have their types
\* (use-org.ts, use-onboarding.ts, sections.tsx).
THEOREM OrgTyped == OrgWorkspaceSpec => []OrgWorkspaceTypeOK
  BY OrgSays, OrgAlways, PTL

\* Whatever org the browser remembers and whoever signed in before, the
\* organization in use is one of the person's (use-org.ts:27-37).
THEOREM WorksInItsOwn == OrgWorkspaceSpec => []ActiveIsOwn
<1>1. OrgInv => ActiveIsOwn
  BY DEF OrgInv, ShellOwned, ActiveIsOwn
<1> QED
  BY <1>1, OrgAlways, PTL

\* Saving the profile never undoes another's rename unless the name itself was
\* typed (sections.tsx:112-123).
THEOREM NamesAdvance == OrgWorkspaceSpec => NamesOnlyAdvance
<1>1. OrgInv /\ [OrgWorkspaceNext]_orgVars =>
        [\A i \in DOMAIN orgs : orgs'[i].name < orgs[i].name => orgDraft.name # <<>>]_orgVars
  <2> SUFFICES ASSUME OrgInv, OrgWorkspaceNext, NEW i \in DOMAIN orgs, orgDraft.name = <<>>
               PROVE  ~ (orgs'[i].name < orgs[i].name)
    OBVIOUS
  <2>1. orgs[i] \in Org /\ orgs[i].name \in Nat /\ orgs[i].name <= valuesUsed
    BY OrgFields
  <2>2. valuesUsed \in Nat
    BY OrgWorkspaceAssumption DEF OrgInv, RestTyped
  <2>3. CASE UNCHANGED orgs
    BY <2>1, <2>3
  <2>4. CASE SubmitOrg /\ ~ UNCHANGED orgs
    <3>1. PICK kind : orgs' = Append(orgs, NewOrg(kind))
      BY <2>4 DEF SubmitOrg
    <3>2. orgs'[i] = orgs[i]
      BY <3>1 DEF OrgInv, OrgsTyped
    <3> QED
      BY <2>1, <3>2
  <2>5. CASE SaveOrg
    <3>1. PICK street, state :
            orgs' = [orgs EXCEPT ![shell.active] = PatchedOrg(@, orgDraft.name, street, state)]
      BY <2>5 DEF SaveOrg
    <3>2. PatchedOrg(orgs[i], orgDraft.name, street, state).name = orgs[i].name
      BY <2>1 DEF PatchedOrg, Org
    <3> QED
      BY <2>1, <3>1, <3>2 DEF OrgInv, OrgsTyped
  <2>6. CASE RenamedElsewhere
    BY <2>1, <2>2, <2>6 DEF RenamedElsewhere, Org
  <2> QED
    BY <2>3, <2>4, <2>5, <2>6 DEF OrgWorkspaceNext, OrgsLoad, OrgsFail, FirstRunGuard,
       OnOrgSelect, CreateAnother, Reload, SignInAs, OrgCreated, AllowAi, ConsentAnswered,
       NotNow, TypeName, TypeStreet, TypeState, Type, OrgSaved
<1> QED
  BY <1>1, OrgAlways, PTL DEF OrgWorkspaceSpec, NamesOnlyAdvance

-----------------------------------------------------------------------------
(* The overview                                                            *)

\* A count of the navigation that is read is of the active organization, and
\* when none is read the one shown is (use-anomaly-badge.ts:17-30).
BadgeInv == (\A r \in reads : r.op = "badge" => r.org = current) /\ BadgeIsOfWorkspace

ReadsAreOurs == \A r \in reads : r.org \in Workspaces

OverviewInv == OverviewTypeOK /\ ReadsAreOurs /\ BadgeInv

LEMMA StaysShort ==
  ASSUME NEW before, NEW after, Len(before) <= 1, after = before \/ \E x : after = <<x>>
  PROVE  Len(after) <= 1
<1>1. CASE after = before
  BY <1>1
<1>2. ASSUME NEW x, after = <<x>> PROVE Len(after) <= 1
  <2>1. Len(<<x>>) <= 1
    OBVIOUS
  <2> QED
    BY <1>2, <2>1, Zenon
<1> QED
  BY <1>1, <1>2

LEMMA OverviewStart == OverviewInit => OverviewInv
<1> SUFFICES ASSUME OverviewInit PROVE OverviewInv
  OBVIOUS
<1>1. /\ PageRead(current).op = "page" /\ PageRead(current).org = current
      /\ BadgeRead(current).op = "badge" /\ BadgeRead(current).org = current
  BY DEF PageRead, BadgeRead
<1>2. OverviewTypeOK
  <2>1. Len(figures) <= 1 /\ Len(donut) <= 1 /\ readsSent \in 0..MaxReads
    BY OverviewAssumption DEF OverviewInit
  <2> QED
    BY <2>1 DEF OverviewInit, OverviewTypeOK
<1> QED
  BY <1>1, <1>2 DEF OverviewInit, OverviewInv, ReadsAreOurs, BadgeInv, BadgeIsOfWorkspace

LEMMA OverviewStep == OverviewInv /\ [OverviewNext]_overviewVars => OverviewInv'
<1> SUFFICES ASSUME OverviewInv, [OverviewNext]_overviewVars PROVE OverviewInv'
  OBVIOUS
<1> USE DEF OverviewInv, BadgeInv, BadgeIsOfWorkspace, ReadsAreOurs
<1>0. MoreReads => readsSent' \in 0..MaxReads
  BY OverviewAssumption DEF MoreReads, OverviewTypeOK
<1>1. CASE AddEntry \/ ConfirmBalanceSheet \/ UNCHANGED overviewVars
  BY <1>1 DEF AddEntry, ConfirmBalanceSheet, overviewVars, OverviewTypeOK
<1>2. CASE SwitchCurrent
  <2>1. PICK o \in Workspaces :
          /\ current' = o
          /\ reads' = {r \in reads : r.op # "badge"} \cup {PageRead(o), BadgeRead(o)}
    BY <1>2 DEF SwitchCurrent
  <2>2. /\ PageRead(o).op = "page" /\ PageRead(o).org = o
        /\ BadgeRead(o).op = "badge" /\ BadgeRead(o).org = o
    BY DEF PageRead, BadgeRead
  <2>3. BadgeInv' /\ ReadsAreOurs'
    BY <2>1, <2>2
  <2>4. OverviewTypeOK'
    BY <1>0, <1>2, <2>1 DEF SwitchCurrent, OverviewTypeOK
  <2> QED
    BY <2>3, <2>4
<1>3. CASE PageLands
  <2>1. BadgeInv' /\ ReadsAreOurs'
    BY <1>3 DEF PageLands
  <2>2. /\ figures' = figures \/ \E x : figures' = <<x>>
        /\ donut' = donut \/ \E x : donut' = <<x>>
    BY <1>3, ZenonT(20) DEF PageLands
  <2>3. Len(figures') <= 1 /\ Len(donut') <= 1
    <3>1. Len(figures) <= 1 /\ Len(donut) <= 1
      BY DEF OverviewTypeOK
    <3> QED
      BY <2>2, <3>1, StaysShort
  <2> QED
    BY <1>3, <2>1, <2>3 DEF PageLands, OverviewTypeOK
<1>4. CASE BadgeLands
  <2>1. BadgeInv' /\ ReadsAreOurs'
    BY <1>4 DEF BadgeLands
  <2> QED
    BY <1>4, <2>1 DEF BadgeLands, OverviewTypeOK
<1>5. CASE PickDonutMonth
  <2>1. PICK m \in Months : reads' = reads \cup {TotalsRead(current, m)}
    BY <1>5 DEF PickDonutMonth
  <2>2. TotalsRead(current, m).op = "totals" /\ TotalsRead(current, m).org = current
    BY DEF TotalsRead
  <2>3. BadgeInv' /\ ReadsAreOurs'
    BY <1>5, <2>1, <2>2 DEF PickDonutMonth, OverviewTypeOK
  <2> QED
    BY <1>0, <1>5, <2>3 DEF PickDonutMonth, OverviewTypeOK
<1>6. CASE MonthLands
  <2>1. BadgeInv' /\ ReadsAreOurs'
    BY <1>6 DEF MonthLands
  <2>2. donut' = donut \/ \E x : donut' = <<x>>
    BY <1>6, ZenonT(20) DEF MonthLands
  <2>3. Len(donut') <= 1
    <3>1. Len(donut) <= 1
      BY DEF OverviewTypeOK
    <3> QED
      BY <2>2, <3>1, StaysShort
  <2> QED
    BY <1>6, <2>1, <2>3 DEF MonthLands, OverviewTypeOK
<1> QED
  BY <1>1, <1>2, <1>3, <1>4, <1>5, <1>6 DEF OverviewNext

\* The navigation counts the anomalies of the organization one works in,
\* however often it is switched and in whatever order answers come.
THEOREM BadgeIsTheirs == OverviewSpec => []BadgeIsOfWorkspace
<1>1. OverviewInv => BadgeIsOfWorkspace
  BY DEF OverviewInv, BadgeInv
<1> QED
  BY <1>1, OverviewStart, OverviewStep, PTL DEF OverviewSpec

-----------------------------------------------------------------------------
(* The period picker                                                       *)

PickerDays == {<<d>> : d \in Calendar}

\* What the draft may be: a range may lack its second end.
PickerDrafts == Typable \cup (IF mode = "range" THEN PickerDays ELSE {})

PickerShape ==
  /\ mode \in PickerModes /\ opened \in BOOLEAN /\ typedWrong \in BOOLEAN
  /\ typed \in PickerDrafts /\ focusDay \in {<<>>} \cup PickerDays /\ rangeStart \in {<<>>} \cup PickerDays
  /\ shownGrid \in 0..(MonthsShown - 1) /\ openings \in 0..MaxOpenings
  /\ clicked \subseteq Calendar

ChosenIsValid == chosen = <<>> \/ IsValidPeriod(chosen)

PickerInv == PickerShape /\ ChosenIsValid /\ HalfPickedIsOfThisOpening

LEMMA WithinMonths ==
  ASSUME NEW size \in Nat \ {0}, NEW count \in Nat \ {0}, NEW d \in 0..(size * count - 1)
  PROVE  d \div size \in 0..(count - 1)
<1> DEFINE q == d \div size
           r == d % size
<1>1. q \in Nat /\ r \in 0..(size - 1) /\ d = size * q + r
  OBVIOUS
<1>2. size * q < size * count
  <2>1. size * q \in Int /\ size * count \in Int
    BY <1>1
  <2> QED
    BY <1>1, <2>1
<1>3. q < count
  <2> SUFFICES ASSUME q >= count PROVE FALSE
    BY <1>1
  <2> HIDE DEF q
  <2>1. PICK k \in Nat : q = count + k
    <3>1. q - count \in Nat /\ q = count + (q - count)
      BY <1>1
    <3> QED
      BY <3>1
  <2>2. size * (count + k) = size * count + size * k /\ size * k >= 0 /\ size * count \in Int
        /\ size * k \in Int
    OBVIOUS
  <2> QED
    BY <1>2, <2>1, <2>2
<1> QED
  BY <1>1, <1>3

LEMMA MonthsAreShown ==
  /\ \A d \in Calendar : MonthOf(d) \in 0..(MonthsShown - 1)
  /\ \A c \in Cells : c \div 2 \in 0..(MonthsShown - 1)
<1>1. ASSUME NEW d \in Calendar PROVE MonthOf(d) \in 0..(MonthsShown - 1)
  BY WithinMonths, PickerAssumption DEF Calendar, MonthOf
<1>2. ASSUME NEW c \in Cells PROVE c \div 2 \in 0..(MonthsShown - 1)
  BY PickerAssumption DEF Cells
<1> QED
  BY <1>1, <1>2

\* Where the grid is turned to, in every mode.
LEMMA GridsAreShown ==
  ASSUME mode \in PickerModes, NEW text \in PickerDrafts, text # <<>>, text # <<Unreal>>
  PROVE  GridOf(text[1]) \in 0..(MonthsShown - 1)
<1>0. mode \in {"day", "range", "month", "quarter", "year"} /\ MonthsShown \in Nat \ {0}
  BY PickerAssumption
<1>1. CASE mode \in {"day", "range"}
  <2>1. text[1] \in Calendar
    BY <1>1 DEF PickerDrafts, Typable, PeriodsOfMode, PickerDays
  <2>2. GridOf(text[1]) = MonthOf(text[1])
    BY <1>1 DEF GridOf
  <2> QED
    BY <1>0, <2>1, <2>2, MonthsAreShown
<1>2. CASE mode \in {"month", "quarter"}
  <2>1. text[1] \in Cells
    BY <1>2 DEF PickerDrafts, Typable, PeriodsOfMode
  <2>2. GridOf(text[1]) = text[1] \div 2
    BY <1>2 DEF GridOf
  <2> QED
    BY <1>0, <2>1, <2>2, MonthsAreShown
<1>3. CASE mode = "year"
  BY <1>0, <1>3 DEF GridOf
<1> QED
  BY <1>0, <1>1, <1>2, <1>3

\* What the grid selects is a draft.
LEMMA SelectedIsADraft ==
  ASSUME mode \in PickerModes, NEW text \in PickerDrafts
  PROVE  SelectedBy(text) \in PickerDrafts
<1>1. CASE text # <<>> /\ mode \in {"day", "range"} /\ text[1] = Unreal
  BY <1>1 DEF SelectedBy, PickerDrafts, Typable
<1>2. CASE text # <<>> /\ mode = "range" /\ text[1] # Unreal
  <2>1. text[1] \in Calendar
    BY <1>2 DEF PickerDrafts, Typable, PeriodsOfMode, PickerDays
  <2> QED
    BY <1>2, <2>1 DEF SelectedBy, PickerDrafts, PickerDays
<1>3. CASE text = <<>> \/ ~ (mode \in {"day", "range"} /\ (mode = "range" \/ text[1] = Unreal))
  BY <1>3 DEF SelectedBy
<1> QED
  BY <1>1, <1>2, <1>3

LEMMA FollowsWithin ==
  ASSUME PickerInv, NEW before, NEW after \in PickerDrafts
  PROVE  Follow(before, after) \in 0..(MonthsShown - 1)
  BY GridsAreShown DEF Follow, PickerInv, PickerShape

LEMMA ForwardAreDrafts == Forward \subseteq PickerDrafts
  BY DEF Forward, PickerDrafts, Typable

LEMMA PickerStart == PickerInit => PickerInv
<1> SUFFICES ASSUME PickerInit PROVE PickerInv
  OBVIOUS
<1>0. mode \in {"day", "range", "month", "quarter", "year"} /\ MonthsShown \in Nat \ {0}
      /\ MaxOpenings \in Nat
  BY PickerAssumption DEF PickerInit
<1>1. ChosenIsValid
  BY <1>0 DEF PickerInit, Forward, PeriodsOfMode, IsValidPeriod, ChosenIsValid
<1>2. typed \in PickerDrafts
  BY ForwardAreDrafts DEF PickerInit, PickerDrafts, Typable
<1>3. PickerShape
  <2>1. shownGrid \in 0..(MonthsShown - 1) /\ openings \in 0..MaxOpenings
    BY <1>0 DEF PickerInit
  <2> QED
    BY <1>2, <2>1 DEF PickerInit, PickerShape
<1> QED
  BY <1>1, <1>3 DEF PickerInit, PickerInv, HalfPickedIsOfThisOpening

\* The mode stays, so what is valid and what may be typed stays too.
LEMMA SameMode ==
  ASSUME mode' = mode
  PROVE  /\ PickerDrafts' = PickerDrafts
         /\ (\A p : IsValidPeriod(p)' <=> IsValidPeriod(p)) /\ PickerDays' = PickerDays
  BY DEF PickerDrafts, Typable, PeriodsOfMode, IsValidPeriod, PickerDays

LEMMA ValidStays ==
  ASSUME PickerInv, mode' = mode, chosen' = chosen
  PROVE  ChosenIsValid'
  BY DEF PickerInv, ChosenIsValid, IsValidPeriod

\* A draft that is committed is valid, or refused.
LEMMA CommitKeeps ==
  ASSUME PickerInv, NEW p \in PickerDrafts, Commit(p), mode' = mode, focusDay' = focusDay,
         openings' = openings, clicked \subseteq clicked', clicked' \subseteq Calendar,
         shownGrid' = shownGrid
  PROVE  PickerInv'
<1>1. CASE IsValidPeriod(p)
  <2>1. typedWrong' = FALSE /\ typed' = p /\ chosen' = p /\ opened' = FALSE /\ rangeStart' = <<>>
    BY <1>1 DEF Commit
  <2>2. ChosenIsValid'
    BY <1>1, <2>1 DEF ChosenIsValid, IsValidPeriod
  <2>3. HalfPickedIsOfThisOpening'
    BY <2>1 DEF HalfPickedIsOfThisOpening
  <2> QED
    BY <2>1, <2>2, <2>3, SameMode DEF PickerInv, PickerShape
<1>2. CASE ~ IsValidPeriod(p)
  <2>1. typedWrong' = TRUE /\ UNCHANGED <<typed, chosen, opened, rangeStart>>
    BY <1>2 DEF Commit
  <2>2. HalfPickedIsOfThisOpening'
    BY <2>1 DEF PickerInv, HalfPickedIsOfThisOpening
  <2> QED
    BY <2>1, <2>2, ValidStays, SameMode DEF PickerInv, PickerShape
<1> QED
  BY <1>1, <1>2

LEMMA PickerStep == PickerInv /\ [PickerNext]_pickerVars => PickerInv'
<1> SUFFICES ASSUME PickerInv, [PickerNext]_pickerVars PROVE PickerInv'
  OBVIOUS
<1>0. /\ mode \in PickerModes /\ mode \in {"day", "range", "month", "quarter", "year"}
      /\ typed \in PickerDrafts /\ shownGrid \in 0..(MonthsShown - 1) /\ MonthsShown \in Nat \ {0}
      /\ MaxOpenings \in Nat /\ clicked \subseteq Calendar /\ openings \in 0..MaxOpenings
      /\ HalfPickedIsOfThisOpening
  BY PickerAssumption DEF PickerInv, PickerShape
<1>1. mode' = mode
  BY DEF PickerNext, Open, Close, TypePeriod, Apply, PickPreset, PickDay, PickMonth, PickQuarter,
     PickYear, Turn, ArrowKey, pickerVars
<1>2. PickerDrafts' = PickerDrafts /\ PickerDays' = PickerDays
  BY <1>1, SameMode
<1>3. CASE UNCHANGED pickerVars
  BY <1>2, <1>3, ValidStays DEF pickerVars, PickerInv, PickerShape, HalfPickedIsOfThisOpening
<1>4. CASE Open
  <2>1. shownGrid' \in 0..(MonthsShown - 1)
    <3>1. SelectedBy(typed) \in PickerDrafts
      BY <1>0, SelectedIsADraft
    <3>2. CASE SelectedBy(typed) \in {<<>>, <<Unreal>>}
      BY <1>0, <1>4, <3>2 DEF Open
    <3>3. CASE SelectedBy(typed) \notin {<<>>, <<Unreal>>}
      BY <1>0, <1>4, <3>1, <3>3, GridsAreShown DEF Open
    <3> QED
      BY <3>2, <3>3
  <2>2. openings' \in 0..MaxOpenings /\ clicked' \subseteq Calendar
    BY <1>0, <1>4 DEF Open
  <2>3. ChosenIsValid'
    BY <1>1, <1>4, ValidStays DEF Open
  <2> QED
    BY <1>2, <1>4, <2>1, <2>2, <2>3 DEF Open, PickerInv, PickerShape, HalfPickedIsOfThisOpening
<1>5. CASE Close
  <2>1. ChosenIsValid'
    BY <1>1, <1>5, ValidStays DEF Close
  <2> QED
    BY <1>2, <1>5, <2>1 DEF Close, PickerInv, PickerShape, HalfPickedIsOfThisOpening
<1>6. CASE TypePeriod
  <2>1. PICK text \in Typable :
          /\ typed' = text
          /\ shownGrid' = IF rangeStart # <<>> THEN shownGrid ELSE Follow(GridValue, SelectedBy(text))
    BY <1>6 DEF TypePeriod
  <2>2. text \in PickerDrafts
    BY DEF PickerDrafts
  <2>3. SelectedBy(text) \in PickerDrafts
    BY <1>0, <2>2, SelectedIsADraft
  <2>4. shownGrid' \in 0..(MonthsShown - 1)
    BY <1>0, <2>1, <2>3, FollowsWithin
  <2>5. ChosenIsValid' /\ HalfPickedIsOfThisOpening'
    BY <1>0, <1>1, <1>6, ValidStays DEF TypePeriod, HalfPickedIsOfThisOpening
  <2> QED
    BY <1>2, <1>6, <2>1, <2>2, <2>4, <2>5 DEF TypePeriod, PickerInv, PickerShape
<1>7. CASE Apply
  BY <1>0, <1>7, CommitKeeps DEF Apply
<1>8. CASE PickPreset
  <2>1. PICK p \in PickerDrafts : Commit(p)
    BY <1>8, ForwardAreDrafts DEF PickPreset
  <2> QED
    BY <1>0, <1>8, <2>1, CommitKeeps DEF PickPreset
<1>9. CASE PickDay
  <2>1. PICK d \in Visible \cap Calendar :
          /\ clicked' = clicked \cup {d}
          /\ CASE mode = "day" -> Commit(<<d>>)
               [] mode = "range" /\ rangeStart = <<>> ->
                    /\ rangeStart' = <<d>> /\ typed' = <<d>> /\ typedWrong' = FALSE
                    /\ UNCHANGED <<chosen, opened>>
               [] OTHER -> Commit(IF d < rangeStart[1] THEN <<d, rangeStart[1]>>
                                  ELSE <<rangeStart[1], d>>)
          /\ shownGrid' = IF mode = "range" /\ rangeStart = <<>> THEN Follow(GridValue, <<d>>)
                          ELSE shownGrid
    BY <1>9, Zenon DEF PickDay
  <2>2. /\ clicked \subseteq clicked' /\ clicked' \subseteq Calendar /\ d \in clicked'
        /\ opened /\ focusDay' = focusDay /\ openings' = openings
    BY <1>0, <1>9, <2>1 DEF PickDay
  <2>3. CASE mode = "day"
    <3>1. <<d>> \in PickerDrafts
      BY <2>3 DEF PickerDrafts, Typable, PeriodsOfMode
    <3>2. Commit(<<d>>) /\ shownGrid' = shownGrid
      BY <2>1, <2>3
    <3> QED
      BY <1>0, <1>1, <2>2, <3>1, <3>2, CommitKeeps
  <2>4. CASE mode = "range" /\ rangeStart = <<>>
    <3>1. <<d>> \in PickerDrafts /\ <<d>> \in PickerDays
      BY <2>4 DEF PickerDrafts, PickerDays
    <3>2. /\ rangeStart' = <<d>> /\ typed' = <<d>> /\ typedWrong' = FALSE
          /\ chosen' = chosen /\ opened' = opened /\ shownGrid' = Follow(GridValue, <<d>>)
      BY <2>1, <2>4
    <3>3. shownGrid' \in 0..(MonthsShown - 1)
      BY <3>1, <3>2, FollowsWithin
    <3>4. HalfPickedIsOfThisOpening'
      BY <2>2, <3>2 DEF HalfPickedIsOfThisOpening
    <3>5. ChosenIsValid'
      BY <1>1, <3>2, ValidStays
    <3> QED
      BY <1>1, <1>2, <2>2, <3>1, <3>2, <3>3, <3>4, <3>5 DEF PickerInv, PickerShape
  <2>5. CASE mode = "range" /\ rangeStart # <<>>
    <3>1. rangeStart[1] \in Calendar
      BY <2>5 DEF PickerInv, PickerShape, PickerDays
    <3>2. \A a, b \in Calendar : <<a, b>> \in PickerDrafts
      BY <2>5 DEF PickerDrafts, Typable, PeriodsOfMode
    <3>3. PICK p \in PickerDrafts : Commit(p)
      BY <2>1, <2>5, <3>1, <3>2
    <3>4. shownGrid' = shownGrid
      BY <2>1, <2>5
    <3> QED
      BY <1>0, <1>1, <2>2, <3>3, <3>4, CommitKeeps
  <2> QED
    BY <1>9, <2>3, <2>4, <2>5 DEF PickDay
<1>10. CASE PickMonth \/ PickQuarter
  <2>1. PICK c \in {2 * shownGrid, 2 * shownGrid + 1} : Commit(<<c>>)
    BY <1>10 DEF PickMonth, PickQuarter
  <2>2. <<c>> \in PickerDrafts
    <3>1. c \in Cells
      BY <1>0 DEF Cells
    <3>2. mode \in {"month", "quarter"}
      BY <1>10 DEF PickMonth, PickQuarter
    <3> QED
      BY <3>1, <3>2 DEF PickerDrafts, Typable, PeriodsOfMode
  <2> QED
    BY <1>0, <1>10, <2>1, <2>2, CommitKeeps DEF PickMonth, PickQuarter
<1>11. CASE PickYear
  <2>1. PICK y \in 0..MonthsShown : Commit(<<y>>)
    BY <1>11 DEF PickYear
  <2>2. <<y>> \in PickerDrafts
    BY <1>11 DEF PickYear, PickerDrafts, Typable, PeriodsOfMode
  <2> QED
    BY <1>0, <1>11, <2>1, <2>2, CommitKeeps DEF PickYear
<1>12. CASE Turn
  <2>1. ChosenIsValid' /\ HalfPickedIsOfThisOpening'
    BY <1>0, <1>1, <1>12, ValidStays DEF Turn, HalfPickedIsOfThisOpening
  <2> QED
    BY <1>0, <1>2, <1>12, <2>1 DEF Turn, PickerInv, PickerShape
<1>13. CASE ArrowKey
  <2>1. PICK e \in Calendar : focusDay' = <<e>> /\ shownGrid' = MonthOf(e)
    BY <1>13 DEF ArrowKey
  <2>2. focusDay' \in PickerDays
    BY <2>1 DEF PickerDays
  <2>3. shownGrid' \in 0..(MonthsShown - 1)
    BY <1>0, <2>1, MonthsAreShown
  <2>4. ChosenIsValid' /\ HalfPickedIsOfThisOpening'
    BY <1>0, <1>1, <1>13, ValidStays DEF ArrowKey, HalfPickedIsOfThisOpening
  <2> QED
    BY <1>2, <1>13, <2>2, <2>3, <2>4 DEF ArrowKey, PickerInv, PickerShape
<1> QED
  BY <1>3, <1>4, <1>5, <1>6, <1>7, <1>8, <1>9, <1>10, <1>11, <1>12, <1>13 DEF PickerNext

LEMMA PickerTyped == PickerInv => PickerTypeOK
<1> SUFFICES ASSUME PickerInv PROVE PickerTypeOK
  OBVIOUS
<1>1. ASSUME NEW s \in {<<>>} \cup PickerDays PROVE Len(s) <= 1
  <2>1. CASE s = <<>>
    BY <2>1
  <2>2. ASSUME NEW d, s = <<d>> PROVE Len(s) <= 1
    <3>1. Len(<<d>>) <= 1
      OBVIOUS
    <3> QED
      BY <2>2, <3>1, Zenon
  <2> QED
    BY <2>1, <2>2 DEF PickerDays
<1>2. shownGrid \in 0..MonthsShown
  BY PickerAssumption DEF PickerInv, PickerShape
<1> QED
  BY <1>1, <1>2 DEF PickerInv, PickerShape, PickerTypeOK, ChosenIsValid

\* The first end of a range that is clicked is forgotten with the panel it was
\* clicked in (PeriodPicker.tsx:197).
THEOREM HalfPickedIsForgotten == PickerSpec => []HalfPickedIsOfThisOpening
<1>1. PickerInv => HalfPickedIsOfThisOpening
  BY DEF PickerInv
<1> QED
  BY <1>1, PickerStart, PickerStep, PTL DEF PickerSpec
=============================================================================
