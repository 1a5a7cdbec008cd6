SPECIFICATION Spec
CONSTANTS
  Categories = {"ads", "cookies"}
  Published <- MCPublished
  MaxFaults = 1
PROPERTIES
  DowngradeProtection
