-------------------------------- MODULE Parts --------------------------------
(***************************************************************************)
(* Parts of the system that share no state, side by side: a behaviour is of  *)
(* one of them, which `part` names from the beginning on, and the variables  *)
(* of the others are Off.  Each part has parameters of its own.              *)
(***************************************************************************)
EXTENDS Naturals

CONSTANTS
  ListVideos, Tenants, Owner, ListKeys, LIMIT, MaxSends, ListMoves, MaxSaves,
  List, DashVideos, DashPages, Crossings, DashMoves,
  FigureVideos, Published, Captions, ListPage, POOL,
  Loads,
  Levels, MaxStarts,
  KeyVideos, Workers, MaxEdits,
  Clicks, CardMoves, MaxEditors,
  Bases, BaseDefault, SettingsSaves,
  Slots, Requests, Attempts, PoolMax

VARIABLES
  part,
  lRow, lMoves, lTenant, lSaves, lView, lPrevious, lSends, lFetch, lCache,
  lError, lVisit,
  dRow, dMoves, dView, dData, dPhase, dAnswer, dInvalid, dRequest, dSnapshot,
  dExcused,
  fReady, fObjects, fView, fCards, fFetch, fItem, fCache,
  eBrowser, eCurrent, eHandler, eTarget, eLoad, eField, eLive, eOverlap,
  pNative, pCaptions, pError, pMade, pHls, pHeard, pDue, pEngine, pShown,
  pView, pQueued,
  sFile, sEdits, sRotated, sPushing, sSsm, sConfig, sRow,
  aRow, aMoves, aPage, aShown, aOpened, aEditing, aClick, aCutOff,
  cStored, cCurrent, cSaves, cForm, cTesting, cOnline, cFetch, cData, cError,
  cSaid, cLate,
  kMaster, kDatabase, kWorker, kTries, kRequest, kServer

lVars == <<lRow, lMoves, lTenant, lSaves, lView, lPrevious, lSends, lFetch,
           lCache, lError, lVisit>>
dVars == <<dRow, dMoves, dView, dData, dPhase, dAnswer, dInvalid, dRequest,
           dSnapshot, dExcused>>
fVars == <<fReady, fObjects, fView, fCards, fFetch, fItem, fCache>>
eVars == <<eBrowser, eCurrent, eHandler, eTarget, eLoad, eField, eLive, eOverlap>>
pVars == <<pNative, pCaptions, pError, pMade, pHls, pHeard, pDue, pEngine,
           pShown, pView, pQueued>>
sVars == <<sFile, sEdits, sRotated, sPushing, sSsm, sConfig, sRow>>
aVars == <<aRow, aMoves, aPage, aShown, aOpened, aEditing, aClick, aCutOff>>
cVars == <<cStored, cCurrent, cSaves, cForm, cTesting, cOnline, cFetch, cData,
           cError, cSaid, cLate>>
kVars == <<kMaster, kDatabase, kWorker, kTries, kRequest, kServer>>

vars == <<part, lVars, dVars, fVars, eVars, pVars, sVars, aVars, cVars, kVars>>

Off == "off"
-----------------------------------------------------------------------------
(* The list of videos. *)
L == INSTANCE Listing WITH
  Videos <- ListVideos, Keys <- ListKeys, MaxMoves <- ListMoves,
  row <- lRow, moves <- lMoves, tenant <- lTenant, saves <- lSaves,
  view <- lView, previous <- lPrevious, sends <- lSends, fetch <- lFetch,
  cache <- lCache, error <- lError, visit <- lVisit

(* The caches of the list and of the pages, and the mutations. *)
D == INSTANCE Dashboard WITH
  Videos <- DashVideos, Pages <- DashPages, MaxMoves <- DashMoves,
  row <- dRow, moves <- dMoves, view <- dView, data <- dData, phase <- dPhase,
  answer <- dAnswer, invalid <- dInvalid, request <- dRequest,
  snapshot <- dSnapshot, excused <- dExcused

(* The figures of the output bucket. *)
F == INSTANCE Footprint WITH
  Videos <- FigureVideos,
  ready <- fReady, objects <- fObjects, view <- fView, cards <- fCards,
  fetch <- fFetch, item <- fItem, cache <- fCache

(* The player package, and the page that replaces one player by another. *)
E == INSTANCE EmbeddedPlayer WITH
  Clicks <- Loads,
  browser <- eBrowser, current <- eCurrent, handler <- eHandler,
  target <- eTarget, load <- eLoad, field <- eField, live <- eLive,
  overlap <- eOverlap

(* The settings menu and the captions. *)
P == INSTANCE PlayerMenu WITH
  native <- pNative, captions <- pCaptions, error <- pError, made <- pMade,
  hls <- pHls, heard <- pHeard, due <- pDue, engine <- pEngine,
  shown <- pShown, view <- pView, queued <- pQueued

(* The operator's settings, and the content keys they wrap. *)
S == INSTANCE Deployment WITH
  Videos <- KeyVideos,
  file <- sFile, edits <- sEdits, rotated <- sRotated, pushing <- sPushing,
  ssm <- sSsm, config <- sConfig, row <- sRow

(* A card and its page, with their buttons and the title. *)
A == INSTANCE CardActions WITH
  MaxMoves <- CardMoves,
  row <- aRow, moves <- aMoves, page <- aPage, shown <- aShown,
  opened <- aOpened, editing <- aEditing, click <- aClick, cutOff <- aCutOff

(* The connection settings of a tab beside others. *)
H == INSTANCE Connection WITH
  Default <- BaseDefault, MaxSaves <- SettingsSaves,
  stored <- cStored, current <- cCurrent, saves <- cSaves, form <- cForm,
  testing <- cTesting, online <- cOnline, fetch <- cFetch, data <- cData,
  error <- cError, said <- cSaid, late <- cLate

(* The processes of the API. *)
K == INSTANCE ApiServer WITH
  Workers <- Slots,
  master <- kMaster, database <- kDatabase, worker <- kWorker, tries <- kTries,
  request <- kRequest, server <- kServer

ASSUME PartsAssumption ==
  /\ L!ListingAssumption /\ D!MutationsAssumption /\ F!FootprintAssumption
  /\ E!ClicksAssumption /\ P!PlayerMenuAssumption
  /\ A!ClicksAssumption /\ H!ConnectionAssumption /\ K!ApiAssumption
-----------------------------------------------------------------------------
ListOff ==
  /\ lRow = Off /\ lMoves = Off /\ lTenant = Off /\ lSaves = Off /\ lView = Off
  /\ lPrevious = Off /\ lSends = Off /\ lFetch = Off /\ lCache = Off
  /\ lError = Off /\ lVisit = Off

MutationsOff ==
  /\ dRow = Off /\ dMoves = Off /\ dView = Off /\ dData = Off /\ dPhase = Off
  /\ dAnswer = Off /\ dInvalid = Off /\ dRequest = Off /\ dSnapshot = Off
  /\ dExcused = Off

FiguresOff ==
  /\ fReady = Off /\ fObjects = Off /\ fView = Off /\ fCards = Off
  /\ fFetch = Off /\ fItem = Off /\ fCache = Off

EmbeddedOff ==
  /\ eBrowser = Off /\ eCurrent = Off /\ eHandler = Off /\ eTarget = Off
  /\ eLoad = Off /\ eField = Off /\ eLive = Off /\ eOverlap = Off

MenuOff ==
  /\ pNative = Off /\ pCaptions = Off /\ pError = Off /\ pMade = Off
  /\ pHls = Off /\ pHeard = Off /\ pDue = Off /\ pEngine = Off /\ pShown = Off
  /\ pView = Off /\ pQueued = Off

SettingsOff ==
  /\ sFile = Off /\ sEdits = Off /\ sRotated = Off /\ sPushing = Off
  /\ sSsm = Off /\ sConfig = Off /\ sRow = Off

CardOff ==
  /\ aRow = Off /\ aMoves = Off /\ aPage = Off /\ aShown = Off
  /\ aOpened = Off /\ aEditing = Off /\ aClick = Off /\ aCutOff = Off

ConnectionOff ==
  /\ cStored = Off /\ cCurrent = Off /\ cSaves = Off /\ cForm = Off
  /\ cTesting = Off /\ cOnline = Off /\ cFetch = Off /\ cData = Off
  /\ cError = Off /\ cSaid = Off /\ cLate = Off

ApiOff ==
  /\ kMaster = Off /\ kDatabase = Off /\ kWorker = Off /\ kTries = Off
  /\ kRequest = Off /\ kServer = Off

Init ==
  /\ part \in {"list", "mutations", "figures", "embedded", "menu",
              "settings", "card", "connection", "api"}
  /\ IF part = "list"      THEN L!Init ELSE ListOff
  /\ IF part = "mutations" THEN D!Init ELSE MutationsOff
  /\ IF part = "figures"   THEN F!Init ELSE FiguresOff
  /\ IF part = "embedded"  THEN E!Init ELSE EmbeddedOff
  /\ IF part = "menu"      THEN P!Init ELSE MenuOff
  /\ IF part = "settings"  THEN S!Init ELSE SettingsOff
  /\ IF part = "card"      THEN A!Init ELSE CardOff
  /\ IF part = "connection" THEN H!Init ELSE ConnectionOff
  /\ IF part = "api"       THEN K!Init ELSE ApiOff

Next ==
  \/ part = "list"      /\ L!Next /\ UNCHANGED <<part, dVars, fVars, eVars, pVars, sVars, aVars, cVars, kVars>>
  \/ part = "mutations" /\ D!Next /\ UNCHANGED <<part, lVars, fVars, eVars, pVars, sVars, aVars, cVars, kVars>>
  \/ part = "figures"   /\ F!Next /\ UNCHANGED <<part, lVars, dVars, eVars, pVars, sVars, aVars, cVars, kVars>>
  \/ part = "embedded"  /\ E!Next /\ UNCHANGED <<part, lVars, dVars, fVars, pVars, sVars, aVars, cVars, kVars>>
  \/ part = "menu"      /\ P!Next /\ UNCHANGED <<part, lVars, dVars, fVars, eVars, sVars, aVars, cVars, kVars>>
  \/ part = "settings"  /\ S!Next /\ UNCHANGED <<part, lVars, dVars, fVars, eVars, pVars, aVars, cVars, kVars>>
  \/ part = "card"      /\ A!Next /\ UNCHANGED <<part, lVars, dVars, fVars, eVars, pVars, sVars, cVars, kVars>>
  \/ part = "connection" /\ H!Next /\ UNCHANGED <<part, lVars, dVars, fVars, eVars, pVars, sVars, aVars, kVars>>
  \/ part = "api"       /\ K!Next /\ UNCHANGED <<part, lVars, dVars, fVars, eVars, pVars, sVars, aVars, cVars>>

Spec == Init /\ [][Next]_vars
-----------------------------------------------------------------------------
(* Properties: each is its part's own, which explains it.                   *)

(* The label and the cards of a list count the same rows, unless rows moved   *)
(* between the statements of the answer (Listing).                          *)
LabelMatches == part = "list" => L!LabelMatches

(* Once a request of the open page has been answered, the list shows rows of  *)
(* the tenant in the settings; before that it may show those of another       *)
(* (Listing).                                                               *)
OwnTenant == part = "list" => L!OwnTenant

(* A page on which nothing is under way any more shows the rows as they are,  *)
(* whatever the mutations and polls crossed each other (Dashboard).          *)
QuietPageIsTrue == part = "mutations" => D!QuietPageIsTrue

(* The storage figure of a card counts at least what PRIMARY published of its *)
(* video, and no more than the bucket holds, through every page of the listing *)
(* and every sharing of its pool (Footprint).                               *)
FigureIsWhole == part = "figures" => F!FigureIsWhole

(* Of the players of earlier clicks no more is left running than the await of *)
(* load(), or the other click, that destroy() ran into can account for        *)
(* (EmbeddedPlayer).                                                        *)
NothingElseLeft == part = "embedded" => E!NothingElseLeft

(* The settings menu and the CC button come to say what the player does,      *)
(* through every retry (PlayerMenu).                                        *)
MenuTrue == part = "menu" => P!MenuTrue

(* An API can unwrap every key that workers of other days' settings wrapped   *)
(* (Deployment).                                                            *)
KeysDeliverable == part = "settings" => S!KeysDeliverable

(* Who stays with the button he clicked is told of a refusal, and a download  *)
(* is saved once (CardActions).                                             *)
ClicksAnswered == part = "card" => A!ClicksAnswered

(* The dot is about the API of the settings in force (Connection).           *)
DotIsTrue == part = "connection" => H!DotIsTrue

(* A request that was accepted and not answered yet belongs to a worker that  *)
(* goes on with its pool, whoever was stopped (ApiServer).                    *)
DrainAnswers == part = "api" => K!DrainAnswers
=============================================================================
