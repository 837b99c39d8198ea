\* The session with everything that may happen to it.
SPECIFICATION FairSpec
CONSTANTS
  Absent = Absent
  MaxPackages = 4
  MaxEvents = 1
  Channels = {1, 2}
  Texts <- MCTexts
  Conditions = {"unreachable", "no udp", "cut", "long", "unlisted", "resync", "no youtube-dl", "sourceless"}
INVARIANTS TypeOK CiphersAgree KnowsItsNamedState AnswersEveryone 
PROPERTIES ImplementsMailbox CatchesUp
CHECK_DEADLOCK FALSE
