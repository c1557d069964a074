SPECIFICATION Spec
CONSTANTS
  Sites = {team, drive}
  Personal = {drive}
  MaxChanges = 2
  MaxJobs = 1
  MaxMishaps = 1
  StaleChecks = 1
  MaxRestarts = 1
INVARIANTS SingleFlight AllowedStaysOpen
PROPERTIES StaleSparesJobs MembersReopened LeaversClosed
