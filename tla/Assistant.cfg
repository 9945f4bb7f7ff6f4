SPECIFICATION MCSpec
CONSTANTS
  a1 = a1
  a2 = a2
  c2 = c2
  c3 = c3
  v1 = v1
  v2 = v2
  Calls <- MCCalls
  Verifications <- MCVerifications
  Identities <- MCIdentities
  Controlled <- MCControlled
  PageActor <- MCControlled
  Numerals <- MCNumerals
  Identifiers <- MCIdentifiers
  ShortWords <- MCShortWords
  Hyphenated <- MCHyphenated
  Corpus <- MCCorpus
  MaxContext <- MCMaxContext
  Size <- totalContent
  Instructs <- looksLikeEmbeddedInstruction
  Escalates <- looksLikeAuthorityEscalation
  Arbitrates <- isExternalDecisionRequest
  SecretTokens <- MCSecretTokens
  Registered <- controlledToolRegistry
  Shelves <- MCShelves
  Authorizes <- authorizes
  Replies <- MCReplies
  Released <- BackedRelease
  Queries <- MCQueries
  PageQueries <- MCPageQueries
  ChallengeLifetime = 2
  SessionLifetime = 2
  MaxChallenges = 2
  MaxSessions = 1
  ClockBound = 3
  IssueBound = 2
CONSTRAINT Focus
INVARIANTS
  AnswersAreAudited
  RetriesShareOneAnswer
  AnswersAreAuthenticated

  
CHECK_DEADLOCK FALSE
