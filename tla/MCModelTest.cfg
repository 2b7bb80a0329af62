SPECIFICATION Spec
CONSTANTS
  Accounts = {"ada", "x"}
  ValidAccounts = {"ada"}
  GroupNames = {g1, g2, bad}
  ValidGroupNames = {g1, g2}
  Websites = {"w"}
  Titles = {"monday"}
  MemberNames = {m1, m2, bad}
  ValidMemberNames = {m1, m2}
  MemberEmails = {e1, e2}
  ValidMemberEmails = {e1, e2}
  Nobody = Nobody
  NoWebsite = NoWebsite
  NoId = NoId
  TeamsOfARoom = 1
  PoolSize = 2
  Indices = {0, 1}
  SignupForms <- JudgeOrSpeaker
  MaxRows <- TwoOrThree
SYMMETRY Spellings
VIEW WhatMatters
INVARIANTS
  DriftIsConfined
PROPERTIES
  EveryFailureHasAReason
