CONSTANTS
  W = 3
  H = 2
  Rocks <- MCRocks
  Camp <- MCCamp
  PlayerStart <- MCPlayerStart
  EnemyStart <- MCEnemyStart
  TurnMovement = 2
  HandSize = 1
  PlayerHp = 1
  PlayerMax = 1
  EnemyMax = 1
  Card = {"ATTACK", "LAMP"}
  Damage = 1
  Heal = 1
  MaxCards = 2
  MayRush = FALSE
SPECIFICATION FairSpec
INVARIANTS
  BattleTypeOK
  OneTileEach
  HighlightsAreOrders
  StepsArePaid
PROPERTIES
  AttacksArePaid
  TurnStartsFull
  TurnComesBack
